---- MODULE Spec2Model ----
(***************************************************************************)
(* Window lifecycle and event dispatch of the GTK backend of druid-shell   *)
(* (druid-shell/src/platform/gtk/window.rs, menu.rs).                      *)
(*                                                                         *)
(* The program is single threaded and re-entrant: the native loop calls a  *)
(* callback, the callback borrows the handler and runs client code, and    *)
(* client code (or a modal dialog) may turn the native loop again, which   *)
(* calls further callbacks on top of the first.  The model therefore keeps *)
(* an explicit call stack.  One frame is one activation of with_handler,   *)
(* of the draw function or of a menu item's activate closure; its pc is    *)
(* the position inside that function.                                      *)
(*                                                                         *)
(* Geometry: a coordinate is an integer counting halves (of a display      *)
(* point in dp rectangles, of a pixel in px rectangles); Scale is 1 or 2.  *)
(***************************************************************************)
EXTENDS Integers, Sequences, FiniteSets, TLC

\* ------------------------------------------------------------------ bounds
MaxDepth == 2
MaxTimers == 1
MaxFiles == 1
MaxIdle == 2
MaxDeferred == 2
MaxRects == 2

\* ---------------------------------------------------------------- geometry
Scales == {1, 2}
WinSizes == {<<1, 1>>, <<2, 1>>}

Rect(a, b, c, d) == [x0 |-> a, y0 |-> b, x1 |-> c, y1 |-> d]

RectInputs == {Rect(1, 0, 2, 1), Rect(0, 1, 3, 2)}

Floor2(v) == (v \div 2) * 2

Ceil2(v) == ((v + 1) \div 2) * 2

\* Scalable::to_px for a Rect: dp * scale, the result counted in half pixels.
ToPx(r, s) == Rect(r.x0 * s, r.y0 * s, r.x1 * s, r.y1 * s)

\* kurbo Rect::expand: every edge rounded away from the centre to a whole pixel.
Expand(r) == Rect(Floor2(r.x0), Floor2(r.y0), Ceil2(r.x1), Ceil2(r.y1))

\* Scalable::to_dp for a Rect: px / scale, the result counted in half points.
ToDp(r, s) == Rect(r.x0 \div s, r.y0 \div s, r.x1 \div s, r.y1 \div s)

\* ScaledArea::from_px(size_px, scale).size_dp(), as half points.
SizeDp(px, s) == <<(2 * px[1]) \div s, (2 * px[2]) \div s>>

\* Size::to_rect
SizeToRect(sz) == Rect(0, 0, sz[1], sz[2])

RectArea(r) == (r.x1 - r.x0) * (r.y1 - r.y0)

\* Region::add_rect: the rectangle joins the region unless it covers nothing.
AddRect(region, r) == IF RectArea(r) > 0 THEN region \cup {r} ELSE region

\* The half-point cells a dp rectangle covers, and those a region covers.
CellsOf(r) == {c \in (r.x0 .. r.x1 - 1) \X (r.y0 .. r.y1 - 1) : TRUE}

RegionCells(region) == UNION {CellsOf(r) : r \in region}

\* ------------------------------------------------------------- next_size
RECURSIVE BitLen(_)
BitLen(x) == IF x = 0 THEN 0 ELSE 1 + BitLen(x \div 2)

RECURSIVE Pow2(_)
Pow2(n) == IF n = 0 THEN 1 ELSE 2 * Pow2(n - 1)

Max(a, b) == IF a >= b THEN a ELSE b

\* A variant that rounds to a finer bucket, between x/8 and x/16.
NextSizeFine(x) ==
    LET accuracy == Pow2(Max(BitLen(x), 7) - 4)
        mask == accuracy - 1
    IN ((x + mask) \div accuracy) * accuracy

\* A variant that rounds down to a multiple of `accuracy`.
NextSizeDown(x) ==
    LET accuracy == Pow2(Max(BitLen(x), 7) - 2)
    IN (x \div accuracy) * accuracy

\* resize_surface::next_size: round up to a multiple of `accuracy`.
NextSize(x) ==
    LET accuracy == Pow2(Max(BitLen(x), 7) - 2)
        mask == accuracy - 1
    IN ((x + mask) \div accuracy) * accuracy

\* ------------------------------------------------------------------ state
VARIABLES
    hasHandler,      \* WindowBuilder.handler is Some
    buildResult,     \* outcome of WindowBuilder::build: "none" before it ran
    appRef,          \* the strong Arc held by the connect_shutdown closure
    shown,           \* window.show() was called
    panicked,        \* a panic unwound out of the program
    scale,           \* WindowState.scale
    reported,        \* the scale the platform setting reports
    area,            \* WindowState.area: its size in pixels and in points
    winPx,           \* the size the toolkit passes to the draw function
    surface,         \* WindowState.surface is Some
    surface_size,    \* WindowState.surface_size
    surfBorrows,     \* number of shared borrows of the surface cell
    invalid,         \* WindowState.invalid
    invalidBorrowed, \* the invalid-region cell is mutably borrowed
    handlerBorrowed, \* the handler cell is mutably borrowed
    idle_queue,      \* WindowState.idle_queue
    idle_lock,       \* the idle queue's mutex is held by a running drain
    blocked,         \* the UI thread locked a mutex it already holds
    idleSources,     \* pending glib sources that will call run_idle
    current_keycode, \* WindowState.current_keycode (0 is None)
    deferred_queue,  \* WindowState.deferred_queue
    timers,          \* tokens whose glib timeout source is installed
    stack,           \* the call stack, bottom first
    nextTimer,       \* TimerToken::next counter
    nextFile,        \* FileDialogToken::next counter
    nextIdle,        \* idle items created so far
    lastRet,         \* what the last WindowHandle/IdleHandle call returned
    hist             \* observation of the run (history, read by the properties)

vars == <<hasHandler, buildResult, appRef, shown, panicked, scale, reported, area,
          winPx, surface, surface_size, surfBorrows, invalid, invalidBorrowed,
          handlerBorrowed,
          idle_queue, idle_lock, blocked, idleSources, current_keycode,
          deferred_queue, timers, stack, nextTimer, nextFile, nextIdle, lastRet, hist>>

\* The fields of WindowState and the glib sources: what a call on a dead handle
\* must leave alone.
windowVars == <<scale, area, surface, surface_size, surfBorrows, invalid,
                invalidBorrowed, handlerBorrowed, idle_queue, idleSources, current_keycode,
                deferred_queue, timers, stack, shown>>

\* ------------------------------------------------------------ call stack
\* One activation record.  f: "wh" (with_handler), "draw" (the draw function),
\* "activate" (a menu item's activate closure).  items: the handler callbacks the
\* closure passed to with_handler still has to make, the first one running while
\* pc = "client".  ret: what the caller does with the result.  batch: the
\* operations run_deferred took out of the queue and has not executed yet.  ev: the
\* native pointer-button event a click callback was called with.
NoEvent == [kind |-> "none", b |-> 0, n |-> 0, m |-> {}]

Frame0 == [f |-> "wh", pc |-> "enter", items |-> <<>>, ret |-> "event", tok |-> 0,
           batch |-> <<>>, res |-> FALSE, reg |-> {}, exp |-> {}, chg |-> FALSE,
           w |-> <<0, 0>>, sc |-> 0, ev |-> NoEvent]

Cb(name, a) == [cb |-> name, arg |-> a]

WH(cbs, r, t) == [Frame0 EXCEPT !.items = cbs, !.ret = r, !.tok = t]

Top == stack[Len(stack)]

Pop == SubSeq(stack, 1, Len(stack) - 1)

SetTop(fr) == [stack EXCEPT ![Len(stack)] = fr]

\* The WindowState exists (build allocated it).
Built == buildResult \in {"building", "Ok"}

\* Weak::upgrade succeeds: some strong Arc is left.  Strong Arcs are held by the
\* connect_shutdown closure, by every installed timeout or idle source (their
\* closures own `state`), and by every callback that is running.
Alive ==
    IF Built THEN (appRef \/ timers # {} \/ idleSources > 0 \/ stack # <<>>) ELSE FALSE

Running == ~panicked /\ ~blocked

\* Client code is running in the top frame (the handler is borrowed for it).
InClient == stack # <<>> /\ Top.pc = "client"

\* The native loop can call a callback now: it is idle, or client code or a modal
\* dialog is turning it from inside a callback.
LoopPoint ==
    /\ Running /\ Built
    /\ IF stack = <<>> THEN TRUE ELSE Top.pc \in {"client", "dlg"}
    /\ Len(stack) < MaxDepth

\* Code that holds a WindowHandle can call it now: client code inside a handler
\* callback, or code outside this window's callbacks.
CanCall == Running /\ Built /\ (IF stack = <<>> THEN TRUE ELSE Top.pc = "client")

\* -------------------------------------------------------------- history
\* The callbacks a new window's handler is to receive first, in this order.
BuildOrder == <<"connect", "scale", "size">>

Inc(n) == IF n < 2 THEN n + 1 ELSE n

\* init: how many callbacks of BuildOrder the handler has received, in order;
\* early: a callback arrived out of that order before all of them had;
\* timerCb, fileCb, idleCb: callbacks received per token; dlg: file dialogs opened
\* per token; popupInHandler: a context menu popped up while the handler was
\* borrowed; timerRetried: a timeout closure got None from with_handler;
\* drainOverlap: an idle item was enqueued while a drain was running; expected: the cells of the pixels touched by the invalidate_rect
\* calls since the region was last swapped out.
Hist0 == [init |-> 0,
          early |-> FALSE,
          timerCb |-> [t \in 1 .. MaxTimers |-> 0],
          fileCb |-> [t \in 1 .. MaxFiles |-> 0],
          dlg |-> [t \in 1 .. MaxFiles |-> 0],
          idleCb |-> [t \in 1 .. MaxIdle |-> 0],
          popupInHandler |-> FALSE,
          timerRetried |-> FALSE,
          drainOverlap |-> FALSE,
          expected |-> {}]

\* The handler received callback c.
Delivered(h, c) ==
    [h EXCEPT !.init = IF @ < Len(BuildOrder) /\ c.cb = BuildOrder[@ + 1] THEN @ + 1 ELSE @,
              !.early = @ \/ (h.init < Len(BuildOrder) /\ c.cb # BuildOrder[h.init + 1]),
              !.timerCb = IF c.cb = "timer" THEN [@ EXCEPT ![c.arg] = Inc(@)] ELSE @,
              !.fileCb = IF c.cb \in {"open_file", "save_as"}
                         THEN [@ EXCEPT ![c.arg] = Inc(@)] ELSE @,
              !.idleCb = IF c.cb \in {"idle", "callback"} THEN [@ EXCEPT ![c.arg] = Inc(@)] ELSE @]

\* The half-point cells of the pixels (at scale s) that rectangle r touches.
SnappedCells(r, s) ==
    LET px == 2 \div s   \* the width of a pixel in half points
    IN {c \in (0 .. 7) \X (0 .. 7) :
          /\ r.x0 < ((c[1] \div px) + 1) * px /\ r.x1 > (c[1] \div px) * px
          /\ r.y0 < ((c[2] \div px) + 1) * px /\ r.y1 > (c[2] \div px) * px}

\* ------------------------------------------------------------------ Init
Init ==
    /\ hasHandler = FALSE
    /\ buildResult = "none"
    /\ appRef = FALSE
    /\ shown = FALSE
    /\ panicked = FALSE
    /\ scale = 1
    /\ reported \in Scales
    /\ area = [px |-> <<0, 0>>, dp |-> <<0, 0>>]
    /\ winPx \in WinSizes
    /\ surface = FALSE
    /\ surface_size = <<0, 0>>
    /\ surfBorrows = 0
    /\ invalid = {}
    /\ invalidBorrowed = FALSE
    /\ handlerBorrowed = FALSE
    /\ idle_queue = <<>>
    /\ idle_lock = FALSE
    /\ blocked = FALSE
    /\ idleSources = 0
    /\ current_keycode = 0
    /\ deferred_queue = <<>>
    /\ timers = {}
    /\ stack = <<>>
    /\ nextTimer = 0
    /\ nextFile = 0
    /\ nextIdle = 0
    /\ lastRet = "none"
    /\ hist = Hist0

\* --------------------------------------------------------- WindowBuilder
\* WindowBuilder::set_handler
SetHandler ==
    /\ buildResult = "none" /\ ~panicked /\ ~hasHandler
    /\ hasHandler' = TRUE
    /\ UNCHANGED <<buildResult, appRef, shown, panicked, scale, reported, area, winPx,
                   surface, surface_size, surfBorrows, invalid, invalidBorrowed,
                   handlerBorrowed, idle_queue, idle_lock, blocked, idleSources,
                   current_keycode, deferred_queue, timers, stack, nextTimer,
                   nextFile, nextIdle, lastRet, hist>>

\* The builder's size (half points) and ScaledArea::from_dp(size, scale).size_px().
BuilderSize == <<2, 2>>

SizePx(dp, s) == <<Ceil2(dp[1] * s) \div 2, Ceil2(dp[2] * s) \div 2>>

\* A variant that reports the size before the scale.
BuildCallbacksSizeFirst == <<Cb("connect", 0), Cb("size", 0), Cb("scale", 0)>>

\* The callbacks build's closure makes, in order.
BuildCallbacks == <<Cb("connect", 0), Cb("scale", 0), Cb("size", 0)>>

\* WindowBuilder::build, up to its call of with_handler.  Without a handler the
\* `expect` panics.
Build ==
    /\ buildResult = "none" /\ ~panicked
    /\ IF ~hasHandler
       THEN /\ panicked' = TRUE
            /\ buildResult' = "panic"
            /\ UNCHANGED <<appRef, scale, area, stack>>
       ELSE /\ buildResult' = "building"
            /\ appRef' = TRUE
            /\ scale' = reported
            /\ area' = [px |-> SizePx(BuilderSize, reported), dp |-> BuilderSize]
            /\ stack' = <<WH(BuildCallbacks, "build", 0)>>
            /\ UNCHANGED panicked
    /\ UNCHANGED <<hasHandler, shown, reported, winPx, surface, surface_size,
                   surfBorrows, invalid, invalidBorrowed, handlerBorrowed, idle_queue,
                   idle_lock, blocked, idleSources, current_keycode, deferred_queue,
                   timers, nextTimer, nextFile, nextIdle, lastRet, hist>>

\* ------------------------------------------------------------ with_handler
\* A variant in which the timeout closure stops its source whatever the result.
ReturnedStopsTimer(fr, res) ==
    /\ stack' = Pop
    /\ shown' = IF fr.ret = "build" THEN TRUE ELSE shown
    /\ buildResult' = IF fr.ret = "build" THEN "Ok" ELSE buildResult
    /\ timers' = IF fr.ret = "timer" THEN timers \ {fr.tok} ELSE timers
    /\ idleSources' = IF fr.ret = "idle" /\ ~res THEN idleSources + 1 ELSE idleSources

\* A variant in which a run_idle that got no result keeps its source as well as
\* installing the retry.
ReturnedRepeatsSource(fr, res) ==
    /\ stack' = Pop
    /\ shown' = IF fr.ret = "build" THEN TRUE ELSE shown
    /\ buildResult' = IF fr.ret = "build" THEN "Ok" ELSE buildResult
    /\ timers' = IF fr.ret = "timer" /\ res THEN timers \ {fr.tok} ELSE timers
    /\ idleSources' = IF fr.ret = "idle" /\ ~res THEN idleSources + 2 ELSE idleSources

\* A variant in which run_idle installs no retry.
ReturnedNoRetry(fr, res) ==
    /\ stack' = Pop
    /\ shown' = IF fr.ret = "build" THEN TRUE ELSE shown
    /\ buildResult' = IF fr.ret = "build" THEN "Ok" ELSE buildResult
    /\ timers' = IF fr.ret = "timer" /\ res THEN timers \ {fr.tok} ELSE timers
    /\ idleSources' = idleSources

\* What the caller of with_handler does once it has the result: build shows the
\* window, the timeout closure stops its source on Some and repeats on None,
\* run_idle installs a retry timeout on None.
Returned(fr, res) ==
    /\ stack' = Pop
    /\ shown' = IF fr.ret = "build" THEN TRUE ELSE shown
    /\ buildResult' = IF fr.ret = "build" THEN "Ok" ELSE buildResult
    /\ timers' = IF fr.ret = "timer" /\ res THEN timers \ {fr.tok} ELSE timers
    /\ idleSources' = IF fr.ret = "idle" /\ ~res THEN idleSources + 1 ELSE idleSources

\* A variant that delivers the taken queue last item first.
RECURSIVE IdleTakenReversed(_)
IdleTakenReversed(q) ==
    IF q = <<>> THEN <<>> ELSE Append(IdleTakenReversed(Tail(q)), Head(q))

\* run_idle's closure: the queue it takes to deliver, and what it leaves behind
\* (std::mem::replace with an empty Vec).
IdleTaken(q) == q

\* A variant that copies the queue and leaves it as it was.
IdleLeftCopy(q) == q

IdleLeft(q) == <<>>

\* Whether the MutexGuard of run_idle's `lock()` is still held while the items
\* run: it is a temporary of the `let queue` statement.
GuardHeldWhileDraining == FALSE

\* A variant that checks the invalid-region cell only.
OtherCellsBorrowedInvalidOnly == invalidBorrowed

\* with_handler's first check: the invalid-region cell and the surface cell must
\* both be free (try_borrow_mut).
OtherCellsBorrowed == invalidBorrowed \/ surfBorrows > 0

\* A variant that takes the first queued operation only.
DeferredTakenFirst(q) == IF q = <<>> THEN <<>> ELSE <<Head(q)>>

\* run_deferred's first statement: the queue is replaced by an empty one.
DeferredTaken(q) == q

\* The history's side of a with_handler call that returns None.
Skipped(h, fr) == [h EXCEPT !.timerRetried = @ \/ fr.ret = "timer"]

\* with_handler, from its entry to the point where client code runs, where a
\* deferred operation is next, or where it returns.
WithHandlerEnter ==
    /\ Running /\ stack # <<>> /\ Top.f = "wh" /\ Top.pc = "enter"
    /\ IF OtherCellsBorrowed
       THEN \* "other RefCells were borrowed": None, and no run_deferred
            /\ Returned(Top, FALSE)
            /\ hist' = Skipped(hist, Top)
            /\ UNCHANGED <<handlerBorrowed, idle_queue, idle_lock, deferred_queue>>
       ELSE IF handlerBorrowed
       THEN \* try_borrow_mut fails: the closure is not called, the result is None,
            \* and run_deferred follows all the same
            /\ stack' = SetTop([Top EXCEPT !.pc = "drain", !.res = FALSE,
                                    !.batch = DeferredTaken(deferred_queue)])
            /\ deferred_queue' = <<>>
            /\ hist' = Skipped(hist, Top)
            /\ UNCHANGED <<shown, buildResult, timers, idleSources>>
            /\ UNCHANGED <<handlerBorrowed, idle_queue, idle_lock>>
       ELSE LET todo == IF Top.ret = "idle" THEN IdleTaken(idle_queue) ELSE Top.items
            IN /\ idle_queue' = IF Top.ret = "idle" THEN IdleLeft(idle_queue) ELSE idle_queue
               /\ IF todo = <<>>
                  THEN \* the closure calls no handler method: borrow, release, drain
                       /\ stack' = SetTop([Top EXCEPT !.pc = "drain", !.res = TRUE,
                                               !.batch = DeferredTaken(deferred_queue)])
                       /\ deferred_queue' = <<>>
                       /\ UNCHANGED <<handlerBorrowed, idle_lock, hist>>
                  ELSE /\ handlerBorrowed' = TRUE
                       /\ idle_lock' = IF Top.ret = "idle" THEN GuardHeldWhileDraining
                                       ELSE idle_lock
                       /\ stack' = SetTop([Top EXCEPT !.pc = "client", !.items = todo])
                       /\ hist' = Delivered(hist, Head(todo))
                       /\ UNCHANGED deferred_queue
               /\ UNCHANGED <<shown, buildResult, timers, idleSources>>
    /\ UNCHANGED <<hasHandler, appRef, panicked, scale, reported, area, winPx, surface,
                   surface_size, surfBorrows, invalid, invalidBorrowed, blocked,
                   current_keycode, nextTimer, nextFile, nextIdle, lastRet>>

\* The handler callback that is running returns.  The closure makes its next
\* callback, or ends: the handler borrow is released and run_deferred starts.
HandlerReturn ==
    /\ Running /\ stack # <<>> /\ Top.f = "wh" /\ Top.pc = "client"
    /\ LET rest == Tail(Top.items)
       IN IF rest # <<>>
          THEN /\ stack' = SetTop([Top EXCEPT !.items = rest])
               /\ hist' = Delivered(hist, Head(rest))
               /\ UNCHANGED <<handlerBorrowed, idle_lock, deferred_queue>>
          ELSE /\ stack' = SetTop([Top EXCEPT !.items = <<>>, !.pc = "drain", !.res = TRUE,
                                       !.batch = DeferredTaken(deferred_queue)])
               /\ deferred_queue' = <<>>
               /\ handlerBorrowed' = FALSE
               /\ idle_lock' = IF Top.ret = "idle" THEN FALSE ELSE idle_lock
               /\ UNCHANGED hist
    /\ UNCHANGED <<hasHandler, buildResult, appRef, shown, panicked, scale, reported,
                   area, winPx, surface, surface_size, surfBorrows, invalid,
                   invalidBorrowed, idle_queue, blocked, idleSources, current_keycode,
                   timers, nextTimer, nextFile, nextIdle, lastRet>>

\* run_deferred's loop: the next operation of the batch, or the end of the loop
\* and with it the return of with_handler.
RunDeferred ==
    /\ Running /\ stack # <<>> /\ Top.f = "wh" /\ Top.pc = "drain"
    /\ IF Top.batch = <<>>
       THEN /\ Returned(Top, Top.res)
            /\ UNCHANGED hist
       ELSE LET op == Head(Top.batch)
            IN /\ IF op.op = "ContextMenu"
                  THEN \* into_gtk_menu and popup: returns at once
                       /\ stack' = SetTop([Top EXCEPT !.batch = Tail(@)])
                       /\ hist' = [hist EXCEPT !.popupInHandler = @ \/ handlerBorrowed]
                  ELSE \* get_file_dialog_path: a modal dialog opens
                       /\ stack' = SetTop([Top EXCEPT !.pc = "dlg"])
                       /\ hist' = [hist EXCEPT !.dlg[op.tok] = Inc(@)]
               /\ UNCHANGED <<shown, buildResult, timers, idleSources>>
    /\ UNCHANGED <<hasHandler, appRef, panicked, scale, reported, area, winPx, surface,
                   surface_size, surfBorrows, invalid, invalidBorrowed, handlerBorrowed,
                   idle_queue, idle_lock, blocked, current_keycode, deferred_queue,
                   nextTimer, nextFile, nextIdle, lastRet>>

\* A variant in which the nested with_handler call costs the drain the rest of
\* its batch.
DialogReturnDropsRest ==
    /\ Running /\ stack # <<>> /\ Top.f = "wh" /\ Top.pc = "dlg"
    /\ LET op == Head(Top.batch)
           cb == IF op.op = "Open" THEN "open_file" ELSE "save_as"
       IN stack' = Append(SetTop([Top EXCEPT !.pc = "drain", !.batch = <<>>]),
                          WH(<<Cb(cb, op.tok)>>, "event", 0))
    /\ UNCHANGED <<hasHandler, buildResult, appRef, shown, panicked, scale, reported,
                   area, winPx, surface, surface_size, surfBorrows, invalid,
                   invalidBorrowed, handlerBorrowed, idle_queue, idle_lock, blocked,
                   idleSources, current_keycode, deferred_queue, timers, nextTimer,
                   nextFile, nextIdle, lastRet, hist>>

\* The file dialog returns; run_deferred passes its result and the token to the
\* handler through with_handler.
DialogReturn ==
    /\ Running /\ stack # <<>> /\ Top.f = "wh" /\ Top.pc = "dlg"
    /\ LET op == Head(Top.batch)
           cb == IF op.op = "Open" THEN "open_file" ELSE "save_as"
       IN stack' = Append(SetTop([Top EXCEPT !.pc = "drain", !.batch = Tail(@)]),
                          WH(<<Cb(cb, op.tok)>>, "event", 0))
    /\ UNCHANGED <<hasHandler, buildResult, appRef, shown, panicked, scale, reported,
                   area, winPx, surface, surface_size, surfBorrows, invalid,
                   invalidBorrowed, handlerBorrowed, idle_queue, idle_lock, blocked,
                   idleSources, current_keycode, deferred_queue, timers, nextTimer,
                   nextFile, nextIdle, lastRet, hist>>

\* ---------------------------------------------------------- invalidation
\* A variant that converts to pixels and back without rounding the edges.
SnapRectNoExpand(r, s) == ToDp(ToPx(r, s), s)

\* WindowState::invalidate_rect's rectangle: snapped to whole pixels at scale s.
SnapRect(r, s) == ToDp(Expand(ToPx(r, s)), s)

\* WindowState::invalidate_rect(r) on the region: dropped when the cell is held.
Invalidated(region, r) ==
    IF invalidBorrowed THEN region ELSE AddRect(region, SnapRect(r, scale))

\* The history's side of one invalidate_rect call.
Requested(h, r) == [h EXCEPT !.expected = @ \cup SnappedCells(r, scale)]

\* ------------------------------------------------------ the draw function
\* resize_surface(width, height): reallocates when there is no surface or the
\* bucketed size changed.
ResizedSize(w) == <<NextSize(w[1]), NextSize(w[2])>>

\* A variant that reports the scale in every cycle.
DrawScaleAlways ==
    /\ Running /\ stack # <<>> /\ Top.f = "draw" /\ Top.pc = "start"
    /\ scale' = reported
    /\ stack' = Append(SetTop([Top EXCEPT !.pc = "size", !.chg = TRUE, !.sc = reported]),
                       WH(<<Cb("scale", 0)>>, "event", 0))
    /\ UNCHANGED <<hasHandler, buildResult, appRef, shown, panicked, reported, area,
                   winPx, surface, surface_size, surfBorrows, invalid, invalidBorrowed,
                   handlerBorrowed, idle_queue, idle_lock, blocked, idleSources,
                   current_keycode, deferred_queue, timers, nextTimer, nextFile,
                   nextIdle, lastRet, hist>>

\* The draw function starts: the DPI check, and the scale callback if it changed.
DrawScale ==
    /\ Running /\ stack # <<>> /\ Top.f = "draw" /\ Top.pc = "start"
    /\ IF scale # reported
       THEN /\ scale' = reported
            /\ stack' = Append(SetTop([Top EXCEPT !.pc = "size", !.chg = TRUE,
                                           !.sc = reported]),
                               WH(<<Cb("scale", 0)>>, "event", 0))
       ELSE /\ stack' = SetTop([Top EXCEPT !.pc = "size"])
            /\ UNCHANGED scale
    /\ UNCHANGED <<hasHandler, buildResult, appRef, shown, panicked, reported, area,
                   winPx, surface, surface_size, surfBorrows, invalid, invalidBorrowed,
                   handlerBorrowed, idle_queue, idle_lock, blocked, idleSources,
                   current_keycode, deferred_queue, timers, nextTimer, nextFile,
                   nextIdle, lastRet, hist>>

\* A variant whose resize destroys the surface it finds and allocates none.
DrawSizeDropsSurface ==
    /\ Running /\ stack # <<>> /\ Top.f = "draw" /\ Top.pc = "size"
    /\ IF ~surface \/ Top.chg \/ area.px # Top.w
       THEN /\ area' = [px |-> Top.w, dp |-> SizeDp(Top.w, Top.sc)]
            /\ IF surfBorrows > 0
               THEN /\ panicked' = TRUE
                    /\ UNCHANGED <<surface, surface_size, stack>>
               ELSE /\ IF ~surface
                       THEN surface' = TRUE /\ surface_size' = ResizedSize(Top.w)
                       ELSE surface' = FALSE /\ UNCHANGED surface_size
                    /\ stack' = Append(SetTop([Top EXCEPT !.pc = "inval"]),
                                       WH(<<Cb("size", 0)>>, "event", 0))
                    /\ UNCHANGED panicked
       ELSE /\ stack' = SetTop([Top EXCEPT !.pc = "prep"])
            /\ UNCHANGED <<area, panicked, surface, surface_size>>
    /\ UNCHANGED <<hasHandler, buildResult, appRef, shown, scale, reported, winPx,
                   surfBorrows, invalid, invalidBorrowed, handlerBorrowed, idle_queue,
                   idle_lock, blocked, idleSources, current_keycode, deferred_queue,
                   timers, nextTimer, nextFile, nextIdle, lastRet, hist>>

\* The size check: a new area, resize_surface and the size callback when there is
\* no surface, the scale changed or the size differs.  resize_surface borrows the
\* surface cell with borrow_mut, which panics while a paint holds it.
DrawSize ==
    /\ Running /\ stack # <<>> /\ Top.f = "draw" /\ Top.pc = "size"
    /\ IF ~surface \/ Top.chg \/ area.px # Top.w
       THEN /\ area' = [px |-> Top.w, dp |-> SizeDp(Top.w, Top.sc)]
            /\ IF surfBorrows > 0
               THEN /\ panicked' = TRUE
                    /\ UNCHANGED <<surface, surface_size, stack>>
               ELSE /\ IF ~surface \/ surface_size # ResizedSize(Top.w)
                       THEN surface' = TRUE /\ surface_size' = ResizedSize(Top.w)
                       ELSE UNCHANGED <<surface, surface_size>>
                    /\ stack' = Append(SetTop([Top EXCEPT !.pc = "inval"]),
                                       WH(<<Cb("size", 0)>>, "event", 0))
                    /\ UNCHANGED panicked
       ELSE /\ stack' = SetTop([Top EXCEPT !.pc = "prep"])
            /\ UNCHANGED <<area, panicked, surface, surface_size>>
    /\ UNCHANGED <<hasHandler, buildResult, appRef, shown, scale, reported, winPx,
                   surfBorrows, invalid, invalidBorrowed, handlerBorrowed, idle_queue,
                   idle_lock, blocked, idleSources, current_keycode, deferred_queue,
                   timers, nextTimer, nextFile, nextIdle, lastRet, hist>>

\* After the size callback: the whole new area is invalidated.
DrawInvalidate ==
    /\ Running /\ stack # <<>> /\ Top.f = "draw" /\ Top.pc = "inval"
    /\ LET full == SizeToRect(SizeDp(Top.w, Top.sc))
       IN /\ invalid' = Invalidated(invalid, full)
          /\ hist' = Requested(hist, full)
    /\ stack' = SetTop([Top EXCEPT !.pc = "prep"])
    /\ UNCHANGED <<hasHandler, buildResult, appRef, shown, panicked, scale, reported,
                   area, winPx, surface, surface_size, surfBorrows, invalidBorrowed,
                   handlerBorrowed, idle_queue, idle_lock, blocked, idleSources,
                   current_keycode, deferred_queue, timers, nextTimer, nextFile,
                   nextIdle, lastRet>>

\* The prepare_paint callback.
DrawPrepare ==
    /\ Running /\ stack # <<>> /\ Top.f = "draw" /\ Top.pc = "prep"
    /\ stack' = Append(SetTop([Top EXCEPT !.pc = "swap"]),
                       WH(<<Cb("prepare_paint", 0)>>, "event", 0))
    /\ UNCHANGED <<hasHandler, buildResult, appRef, shown, panicked, scale, reported,
                   area, winPx, surface, surface_size, surfBorrows, invalid,
                   invalidBorrowed, handlerBorrowed, idle_queue, idle_lock, blocked,
                   idleSources, current_keycode, deferred_queue, timers, nextTimer,
                   nextFile, nextIdle, lastRet, hist>>

\* std::mem::replace(&mut *invalid, Region::EMPTY): what stays in the cell.
RegionLeft(region) == {}

\* The accumulated region is swapped out for the empty one.
DrawSwap ==
    /\ Running /\ stack # <<>> /\ Top.f = "draw" /\ Top.pc = "swap"
    /\ IF invalidBorrowed
       THEN /\ stack' = SetTop([Top EXCEPT !.pc = "paint", !.reg = {}, !.exp = {}])
            /\ UNCHANGED <<invalid, hist>>
       ELSE /\ stack' = SetTop([Top EXCEPT !.pc = "paint", !.reg = invalid,
                                    !.exp = hist.expected])
            /\ invalid' = RegionLeft(invalid)
            /\ hist' = [hist EXCEPT !.expected = {}]
    /\ UNCHANGED <<hasHandler, buildResult, appRef, shown, panicked, scale, reported,
                   area, winPx, surface, surface_size, surfBorrows, invalidBorrowed,
                   handlerBorrowed, idle_queue, idle_lock, blocked, idleSources,
                   current_keycode, deferred_queue, timers, nextTimer, nextFile,
                   nextIdle, lastRet>>

\* A variant that takes the surface out of its cell for the paint callback
\* instead of borrowing it.
DrawPaintTakesSurface ==
    /\ Running /\ stack # <<>> /\ Top.f = "draw" /\ Top.pc = "paint"
    /\ IF surface /\ ~handlerBorrowed
       THEN /\ handlerBorrowed' = TRUE
            /\ surfBorrows' = surfBorrows + 1
            /\ surface' = FALSE
            /\ stack' = SetTop([Top EXCEPT !.pc = "client",
                                    !.items = <<Cb("paint", 0)>>])
            /\ hist' = Delivered(hist, Cb("paint", 0))
       ELSE /\ stack' = Pop
            /\ UNCHANGED <<handlerBorrowed, surfBorrows, surface, hist>>
    /\ UNCHANGED <<hasHandler, buildResult, appRef, shown, panicked, scale, reported,
                   area, winPx, surface_size, invalid, invalidBorrowed,
                   idle_queue, idle_lock, blocked, idleSources, current_keycode,
                   deferred_queue, timers, nextTimer, nextFile, nextIdle, lastRet>>

\* The paint callback, through with_handler_and_dont_check_the_other_borrows and
\* with the surface borrowed; skipped when there is no surface, not made when the
\* handler is borrowed.  No run_deferred follows it.
DrawPaint ==
    /\ Running /\ stack # <<>> /\ Top.f = "draw" /\ Top.pc = "paint"
    /\ IF surface /\ ~handlerBorrowed
       THEN /\ handlerBorrowed' = TRUE
            /\ surfBorrows' = surfBorrows + 1
            /\ stack' = SetTop([Top EXCEPT !.pc = "client",
                                    !.items = <<Cb("paint", 0)>>])
            /\ hist' = Delivered(hist, Cb("paint", 0))
       ELSE /\ stack' = Pop
            /\ UNCHANGED <<handlerBorrowed, surfBorrows, hist>>
    /\ UNCHANGED <<hasHandler, buildResult, appRef, shown, panicked, scale, reported,
                   area, winPx, surface, surface_size, invalid, invalidBorrowed,
                   idle_queue, idle_lock, blocked, idleSources, current_keycode,
                   deferred_queue, timers, nextTimer, nextFile, nextIdle, lastRet>>

\* The paint callback returns: the handler and the surface are released and the
\* draw function ends.
PaintReturn ==
    /\ Running /\ stack # <<>> /\ Top.f = "draw" /\ Top.pc = "client"
    /\ handlerBorrowed' = FALSE
    /\ surfBorrows' = surfBorrows - 1
    /\ stack' = Pop
    /\ UNCHANGED <<hasHandler, buildResult, appRef, shown, panicked, scale, reported,
                   area, winPx, surface, surface_size, invalid, invalidBorrowed,
                   idle_queue, idle_lock, blocked, idleSources, current_keycode,
                   deferred_queue, timers, nextTimer, nextFile, nextIdle, lastRet,
                   hist>>

\* ------------------------------------------------------- native callbacks
\* The toolkit calls the draw function (set_draw_func's closure).
Draw ==
    /\ LoopPoint /\ shown
    /\ IF Alive
       THEN stack' = Append(stack, [Frame0 EXCEPT !.f = "draw", !.pc = "start",
                                                  !.w = winPx, !.sc = scale])
       ELSE UNCHANGED stack
    /\ UNCHANGED <<hasHandler, buildResult, appRef, shown, panicked, scale, reported,
                   area, winPx, surface, surface_size, surfBorrows, invalid,
                   invalidBorrowed, handlerBorrowed, idle_queue, idle_lock, blocked,
                   idleSources, current_keycode, deferred_queue, timers, nextTimer,
                   nextFile, nextIdle, lastRet, hist>>

\* The input and focus callbacks that only build an event and call with_handler:
\* connect_motion and connect_leave (mouse_move), focus connect_enter (got_focus)
\* and connect_leave (lost_focus).
InputCallbacks == {"mouse_move", "got_focus"}

\* A variant whose closure calls the handler twice.
InputTwice(cb) ==
    /\ LoopPoint /\ shown
    /\ IF Alive
       THEN stack' = Append(stack, WH(<<Cb(cb, 0), Cb(cb, 0)>>, "event", 0))
       ELSE UNCHANGED stack
    /\ UNCHANGED <<hasHandler, buildResult, appRef, shown, panicked, scale, reported,
                   area, winPx, surface, surface_size, surfBorrows, invalid,
                   invalidBorrowed, handlerBorrowed, idle_queue, idle_lock, blocked,
                   idleSources, current_keycode, deferred_queue, timers, nextTimer,
                   nextFile, nextIdle, lastRet, hist>>

Input(cb) ==
    /\ LoopPoint /\ shown
    /\ IF Alive
       THEN stack' = Append(stack, WH(<<Cb(cb, 0)>>, "event", 0))
       ELSE UNCHANGED stack
    /\ UNCHANGED <<hasHandler, buildResult, appRef, shown, panicked, scale, reported,
                   area, winPx, surface, surface_size, surfBorrows, invalid,
                   invalidBorrowed, handlerBorrowed, idle_queue, idle_lock, blocked,
                   idleSources, current_keycode, deferred_queue, timers, nextTimer,
                   nextFile, nextIdle, lastRet, hist>>

Keys == {1, 2}

\* make_key_event: the KeyEvent of a raw key; the raw key stands for what
\* the key, code, location and text are computed from.
MakeKeyEvent(raw_key, repeat, state) ==
    [key |-> raw_key, repeat |-> repeat, state |-> state]

\* A variant that reports a repeat whenever any key is held in the cell.
RepeatAnyHeld(k) == current_keycode # 0

\* connect_key_pressed: repeat, read from the last-pressed cell before the cell
\* is written.
Repeat(k) == current_keycode = k

\* connect_key_pressed: the last-pressed cell is written before with_handler.
KeyPressed(k) ==
    /\ LoopPoint /\ shown
    /\ IF Alive
       THEN /\ current_keycode' = k
            /\ stack' = Append(stack,
                   WH(<<Cb("key_down", MakeKeyEvent(k, Repeat(k), "Down"))>>, "event", 0))
       ELSE UNCHANGED <<current_keycode, stack>>
    /\ UNCHANGED <<hasHandler, buildResult, appRef, shown, panicked, scale, reported,
                   area, winPx, surface, surface_size, surfBorrows, invalid,
                   invalidBorrowed, handlerBorrowed, idle_queue, idle_lock, blocked,
                   idleSources, deferred_queue, timers, nextTimer, nextFile, nextIdle,
                   lastRet, hist>>

\* connect_key_released: the cell is cleared when it holds the released key.
KeyReleased(k) ==
    /\ LoopPoint /\ shown
    /\ IF Alive
       THEN /\ current_keycode' = IF current_keycode = k THEN 0 ELSE current_keycode
            /\ stack' = Append(stack,
                   WH(<<Cb("key_up", MakeKeyEvent(k, FALSE, "Up"))>>, "event", 0))
       ELSE UNCHANGED <<current_keycode, stack>>
    /\ UNCHANGED <<hasHandler, buildResult, appRef, shown, panicked, scale, reported,
                   area, winPx, surface, surface_size, surfBorrows, invalid,
                   invalidBorrowed, handlerBorrowed, idle_queue, idle_lock, blocked,
                   idleSources, deferred_queue, timers, nextTimer, nextFile, nextIdle,
                   lastRet, hist>>

\* Pointer buttons: the native button ids, the press counts and the button bits of
\* the modifier state (BUTTON1_MASK .. BUTTON5_MASK) that events arrive with.
ButtonIds == {1, 2, 3, 4, 8, 9}

PressCounts == {0, 1, 2, 3}

ButtonMasks == {{}, {1, 4}}

\* A variant that also maps button 4.
GetMouseButtonWithFour(b) ==
    CASE b = 1 -> "Left" [] b = 2 -> "Middle" [] b = 3 -> "Right"
      [] b = 4 -> "X1" [] b = 8 -> "X1" [] b = 9 -> "X2" [] OTHER -> "None"

\* get_mouse_button ("None" is the Option's None)
GetMouseButton(b) ==
    CASE b = 1 -> "Left" [] b = 2 -> "Middle" [] b = 3 -> "Right"
      [] b = 8 -> "X1" [] b = 9 -> "X2" [] OTHER -> "None"

\* get_mouse_buttons_from_modifiers
ButtonsFromModifiers(m) ==
    (IF 1 \in m THEN {"Left"} ELSE {}) \cup (IF 2 \in m THEN {"Middle"} ELSE {})
    \cup (IF 3 \in m THEN {"Right"} ELSE {}) \cup (IF 4 \in m THEN {"X1"} ELSE {})
    \cup (IF 5 \in m THEN {"X2"} ELSE {})

\* A variant that forwards a press of every count.
PressedCallbacksAnyCount(b, n, m) ==
    IF GetMouseButton(b) # "None"
    THEN <<Cb("mouse_down", [button |-> GetMouseButton(b), count |-> n,
                             buttons |-> ButtonsFromModifiers(m) \cup {GetMouseButton(b)}])>>
    ELSE <<>>

\* The handler calls the closure of connect_pressed makes.
PressedCallbacks(b, n, m) ==
    IF GetMouseButton(b) # "None" /\ n \in {0, 1}
    THEN <<Cb("mouse_down", [button |-> GetMouseButton(b), count |-> n,
                             buttons |-> ButtonsFromModifiers(m) \cup {GetMouseButton(b)}])>>
    ELSE <<>>

\* The handler calls the closure of connect_released makes.
ReleasedCallbacks(b, m) ==
    IF GetMouseButton(b) # "None"
    THEN <<Cb("mouse_up", [button |-> GetMouseButton(b), count |-> 0,
                           buttons |-> ButtonsFromModifiers(m) \ {GetMouseButton(b)}])>>
    ELSE <<>>

\* connect_pressed and connect_released: the click gesture's callbacks.
ButtonEvent(kind, b, n, m) ==
    /\ LoopPoint /\ shown
    /\ IF Alive
       THEN stack' = Append(stack,
                [WH(IF kind = "press" THEN PressedCallbacks(b, n, m)
                    ELSE ReleasedCallbacks(b, m), "event", 0)
                   EXCEPT !.ev = [kind |-> kind, b |-> b, n |-> n, m |-> m]])
       ELSE UNCHANGED stack
    /\ UNCHANGED <<hasHandler, buildResult, appRef, shown, panicked, scale, reported,
                   area, winPx, surface, surface_size, surfBorrows, invalid,
                   invalidBorrowed, handlerBorrowed, idle_queue, idle_lock, blocked,
                   idleSources, current_keycode, deferred_queue, timers, nextTimer,
                   nextFile, nextIdle, lastRet, hist>>

ButtonPressed(b, n, m) == ButtonEvent("press", b, n, m)

ButtonReleased(b, n, m) == ButtonEvent("release", b, n, m)

\* A timeout source of request_timer fires.  glib does not call a source again
\* while its callback is running.
TimerInCall(t) == \E i \in 1 .. Len(stack) : stack[i].ret = "timer" /\ stack[i].tok = t

TimerFire(t) ==
    /\ LoopPoint /\ t \in timers /\ ~TimerInCall(t)
    /\ stack' = Append(stack, WH(<<Cb("timer", t)>>, "timer", t))
    /\ UNCHANGED <<hasHandler, buildResult, appRef, shown, panicked, scale, reported,
                   area, winPx, surface, surface_size, surfBorrows, invalid,
                   invalidBorrowed, handlerBorrowed, idle_queue, idle_lock, blocked,
                   idleSources, current_keycode, deferred_queue, timers, nextTimer,
                   nextFile, nextIdle, lastRet, hist>>

\* An idle source (or a retry timeout) fires: run_idle.  The source returns
\* Continue(false), so it is gone once it has fired.
RunIdle ==
    /\ LoopPoint /\ idleSources > 0
    /\ idleSources' = idleSources - 1
    /\ stack' = Append(stack, WH(<<>>, "idle", 0))
    /\ UNCHANGED <<hasHandler, buildResult, appRef, shown, panicked, scale, reported,
                   area, winPx, surface, surface_size, surfBorrows, invalid,
                   invalidBorrowed, handlerBorrowed, idle_queue, idle_lock, blocked,
                   current_keycode, deferred_queue, timers, nextTimer, nextFile,
                   nextIdle, lastRet, hist>>

MenuIds == {1}

\* A menu entry's connect_activate closure: handler.borrow_mut().command(id),
\* which panics when the handler is borrowed.
MenuActivate(id) ==
    /\ LoopPoint /\ shown
    /\ IF ~Alive
       THEN UNCHANGED <<panicked, handlerBorrowed, stack, hist>>
       ELSE IF handlerBorrowed
       THEN /\ panicked' = TRUE
            /\ UNCHANGED <<handlerBorrowed, stack, hist>>
       ELSE /\ handlerBorrowed' = TRUE
            /\ stack' = Append(stack, [Frame0 EXCEPT !.f = "activate", !.pc = "client",
                                                     !.items = <<Cb("command", id)>>])
            /\ hist' = Delivered(hist, Cb("command", id))
            /\ UNCHANGED panicked
    /\ UNCHANGED <<hasHandler, buildResult, appRef, shown, scale, reported, area, winPx,
                   surface, surface_size, surfBorrows, invalid, invalidBorrowed,
                   idle_queue, idle_lock, blocked, idleSources, current_keycode,
                   deferred_queue, timers, nextTimer, nextFile, nextIdle, lastRet>>

\* The command callback returns; the closure ends (no run_deferred).
CommandReturn ==
    /\ Running /\ stack # <<>> /\ Top.f = "activate" /\ Top.pc = "client"
    /\ handlerBorrowed' = FALSE
    /\ stack' = Pop
    /\ UNCHANGED <<hasHandler, buildResult, appRef, shown, panicked, scale, reported,
                   area, winPx, surface, surface_size, surfBorrows, invalid,
                   invalidBorrowed, idle_queue, idle_lock, blocked, idleSources,
                   current_keycode, deferred_queue, timers, nextTimer, nextFile,
                   nextIdle, lastRet, hist>>

\* The application shuts down: the connect_shutdown closure and its Arc go.
Shutdown ==
    /\ Running /\ buildResult = "Ok" /\ appRef /\ stack = <<>>
    /\ appRef' = FALSE
    /\ UNCHANGED <<hasHandler, buildResult, shown, panicked, scale, reported, area,
                   winPx, surface, surface_size, surfBorrows, invalid, invalidBorrowed,
                   handlerBorrowed, idle_queue, idle_lock, blocked, idleSources,
                   current_keycode, deferred_queue, timers, stack, nextTimer, nextFile,
                   nextIdle, lastRet, hist>>

\* The platform: the reported DPI setting changes, the drawing area is resized.
SettingChange ==
    /\ Running /\ buildResult = "Ok"
    /\ reported' \in Scales \ {reported}
    /\ UNCHANGED <<hasHandler, buildResult, appRef, shown, panicked, scale, area, winPx,
                   surface, surface_size, surfBorrows, invalid, invalidBorrowed,
                   handlerBorrowed, idle_queue, idle_lock, blocked, idleSources,
                   current_keycode, deferred_queue, timers, stack, nextTimer, nextFile,
                   nextIdle, lastRet, hist>>

Resize ==
    /\ Running /\ buildResult = "Ok"
    /\ winPx' \in WinSizes \ {winPx}
    /\ UNCHANGED <<hasHandler, buildResult, appRef, shown, panicked, scale, reported,
                   area, surface, surface_size, surfBorrows, invalid, invalidBorrowed,
                   handlerBorrowed, idle_queue, idle_lock, blocked, idleSources,
                   current_keycode, deferred_queue, timers, stack, nextTimer, nextFile,
                   nextIdle, lastRet, hist>>

\* ----------------------------------------------- WindowHandle, IdleHandle
\* WindowHandle::invalidate_rect
InvalidateRect(r) ==
    /\ CanCall /\ Cardinality(invalid) < MaxRects
    /\ IF Alive
       THEN /\ invalid' = Invalidated(invalid, r)
            /\ hist' = Requested(hist, r)
       ELSE UNCHANGED <<invalid, hist>>
    /\ UNCHANGED <<hasHandler, buildResult, appRef, shown, panicked, scale, reported,
                   area, winPx, surface, surface_size, surfBorrows, invalidBorrowed,
                   handlerBorrowed, idle_queue, idle_lock, blocked, idleSources,
                   current_keycode, deferred_queue, timers, stack, nextTimer, nextFile,
                   nextIdle, lastRet>>

\* A variant that puts the operation at the front of the queue.
DeferredFront(q, op) == <<op>> \o q

\* WindowState::defer
Deferred(q, op) == Append(q, op)

\* WindowHandle::open_file and WindowHandle::save_as (kind is "Open" or "SaveAs")
OpenFile(kind) ==
    /\ CanCall /\ nextFile < MaxFiles
    /\ IF Alive
       THEN /\ nextFile' = nextFile + 1
            /\ deferred_queue' = Deferred(deferred_queue, [op |-> kind, tok |-> nextFile + 1])
            /\ lastRet' = "Some"
       ELSE /\ lastRet' = "None"
            /\ UNCHANGED <<nextFile, deferred_queue>>
    /\ UNCHANGED <<hasHandler, buildResult, appRef, shown, panicked, scale, reported,
                   area, winPx, surface, surface_size, surfBorrows, invalid,
                   invalidBorrowed, handlerBorrowed, idle_queue, idle_lock, blocked,
                   idleSources, current_keycode, timers, stack, nextTimer, nextIdle,
                   hist>>

\* WindowHandle::show_context_menu
ShowContextMenu ==
    /\ CanCall /\ Len(deferred_queue) < MaxDeferred
    /\ IF Alive
       THEN deferred_queue' = Deferred(deferred_queue, [op |-> "ContextMenu", tok |-> 0])
       ELSE UNCHANGED deferred_queue
    /\ UNCHANGED <<hasHandler, buildResult, appRef, shown, panicked, scale, reported,
                   area, winPx, surface, surface_size, surfBorrows, invalid,
                   invalidBorrowed, handlerBorrowed, idle_queue, idle_lock, blocked,
                   idleSources, current_keycode, timers, stack, nextTimer, nextFile,
                   nextIdle, lastRet, hist>>

\* WindowHandle::request_timer: the token is taken in any case, the timeout
\* source is installed on a live window only.
RequestTimer ==
    /\ CanCall /\ nextTimer < MaxTimers
    /\ nextTimer' = nextTimer + 1
    /\ timers' = IF Alive THEN timers \cup {nextTimer + 1} ELSE timers
    /\ UNCHANGED <<hasHandler, buildResult, appRef, shown, panicked, scale, reported,
                   area, winPx, surface, surface_size, surfBorrows, invalid,
                   invalidBorrowed, handlerBorrowed, idle_queue, idle_lock, blocked,
                   idleSources, current_keycode, deferred_queue, stack, nextFile,
                   nextIdle, lastRet, hist>>

\* WindowHandle::get_scale, make_cursor and get_idle_handle: what they return.
Queries == {"get_scale", "make_cursor", "get_idle_handle"}

Query(q) ==
    /\ CanCall
    /\ lastRet' = IF q = "get_scale"
                  THEN (IF Alive THEN "Ok" ELSE "WindowDropped")
                  ELSE (IF Alive THEN "Some" ELSE "None")
    /\ UNCHANGED <<hasHandler, buildResult, appRef, shown, panicked, scale, reported,
                   area, winPx, surface, surface_size, surfBorrows, invalid,
                   invalidBorrowed, handlerBorrowed, idle_queue, idle_lock, blocked,
                   idleSources, current_keycode, deferred_queue, timers, stack,
                   nextTimer, nextFile, nextIdle, hist>>

\* IdleHandle::add_idle_callback ("callback") and add_idle_token ("idle"): the
\* item is pushed, and a drain is scheduled when the queue was empty.
IdleKinds == {"callback", "idle"}

\* run_idle's closure is delivering the items of a batch.
Draining == \E j \in 1 .. Len(stack) : stack[j].ret = "idle" /\ stack[j].pc = "client"

\* A variant that schedules a drain with every push.
AddIdleEffectAlwaysSchedules(kind) ==
    IF Alive
    THEN /\ nextIdle' = nextIdle + 1
         /\ idle_queue' = Append(idle_queue, Cb(kind, nextIdle + 1))
         /\ idleSources' = idleSources + 1
         /\ hist' = [hist EXCEPT !.drainOverlap = @ \/ Draining]
    ELSE UNCHANGED <<nextIdle, idle_queue, idleSources, hist>>

\* A variant that pushes the item without upgrading the weak reference.
AddIdleEffectNoUpgrade(kind) ==
    /\ nextIdle' = nextIdle + 1
    /\ idle_queue' = Append(idle_queue, Cb(kind, nextIdle + 1))
    /\ idleSources' = IF idle_queue = <<>> THEN idleSources + 1 ELSE idleSources
    /\ hist' = [hist EXCEPT !.drainOverlap = @ \/ Draining]

AddIdleEffect(kind) ==
    IF Alive
    THEN /\ nextIdle' = nextIdle + 1
         /\ idle_queue' = Append(idle_queue, Cb(kind, nextIdle + 1))
         /\ idleSources' = IF idle_queue = <<>> THEN idleSources + 1 ELSE idleSources
         /\ hist' = [hist EXCEPT !.drainOverlap = @ \/ Draining]
    ELSE UNCHANGED <<nextIdle, idle_queue, idleSources, hist>>

\* Called on the UI thread: locking the mutex a running drain holds never returns.
AddIdle(kind) ==
    /\ CanCall /\ nextIdle < MaxIdle
    /\ IF idle_lock
       THEN /\ blocked' = TRUE
            /\ UNCHANGED <<nextIdle, idle_queue, idleSources, hist>>
       ELSE /\ AddIdleEffect(kind)
            /\ UNCHANGED blocked
    /\ UNCHANGED <<hasHandler, buildResult, appRef, shown, panicked, scale, reported,
                   area, winPx, surface, surface_size, surfBorrows, invalid,
                   invalidBorrowed, handlerBorrowed, idle_lock, current_keycode,
                   deferred_queue, timers, stack, nextTimer, nextFile, lastRet>>

\* Called on another thread (IdleHandle is Send): between any two steps of the UI
\* thread, once the mutex is free.
AddIdleOtherThread(kind) ==
    /\ Running /\ Built /\ nextIdle < MaxIdle /\ ~idle_lock
    /\ ~CanCall
    /\ AddIdleEffect(kind)
    /\ UNCHANGED <<hasHandler, buildResult, appRef, shown, panicked, scale, reported,
                   area, winPx, surface, surface_size, surfBorrows, invalid,
                   invalidBorrowed, handlerBorrowed, idle_lock, blocked,
                   current_keycode, deferred_queue, timers, stack, nextTimer, nextFile,
                   lastRet>>

\* ------------------------------------------------------------------ Next
\* with_handler, run_deferred and the builder.  (A file dialog returns only in the
\* specifications whose client code opens one.)
CoreStep ==
    \/ SetHandler
    \/ Build
    \/ WithHandlerEnter
    \/ HandlerReturn
    \/ RunDeferred

\* The draw function.
DrawStep ==
    \/ Draw
    \/ DrawScale
    \/ DrawSize
    \/ DrawInvalidate
    \/ DrawPrepare
    \/ DrawSwap
    \/ DrawPaint
    \/ PaintReturn

\* Deferred operations: the callbacks that reach the handler (input, paint, menu
\* commands), the operations client code defers from them, and run_deferred.
Next ==
    \/ CoreStep
    \/ DialogReturn
    \/ DrawStep
    \/ Input("mouse_move")
    \/ \E id \in MenuIds : MenuActivate(id)
    \/ CommandReturn
    \/ \E kind \in {"Open", "SaveAs"} : OpenFile(kind)
    \/ ShowContextMenu

Spec == Init /\ [][Next]_vars

\* Timers and idle work, with every kind of callback competing for the handler.
NextSched ==
    \/ CoreStep
    \/ DrawStep
    \/ \E cb \in InputCallbacks : Input(cb)
    \/ \E t \in 1 .. MaxTimers : TimerFire(t)
    \/ RunIdle
    \/ RequestTimer
    \/ \E kind \in IdleKinds : AddIdle(kind)
    \/ \E kind \in IdleKinds : AddIdleOtherThread(kind)

\* A step inside a running callback: the call stack's top frame moves on.
Progress ==
    \/ WithHandlerEnter
    \/ HandlerReturn
    \/ RunDeferred
    \/ DialogReturn
    \/ DrawScale
    \/ DrawSize
    \/ DrawInvalidate
    \/ DrawPrepare
    \/ DrawSwap
    \/ DrawPaint
    \/ PaintReturn

\* Scheduling: the code of a callback runs on; client code and dialogs return (a
\* callback at a depth where the loop can be turned goes on after the callbacks
\* nested in it have ended); and the idle loop calls a source that is ready.
FairSched ==
    /\ WF_vars(Progress)
    /\ \A d \in 1 .. MaxDepth - 1 : SF_vars(Progress /\ Len(stack) = d)
    /\ SF_vars(RunIdle /\ stack = <<>>)
    /\ \A t \in 1 .. MaxTimers : SF_vars(TimerFire(t) /\ stack = <<>>)

SpecSched == Init /\ [][NextSched]_vars /\ FairSched

\* Painting: invalidation, scale and size changes, and the draw function, with
\* input callbacks as the other source of handler calls.
NextPaint ==
    \/ CoreStep
    \/ DrawStep
    \/ Input("mouse_move")
    \/ SettingChange
    \/ Resize
    \/ \E r \in RectInputs : InvalidateRect(r)

SpecPaint == Init /\ [][NextPaint]_vars

\* Input: pointer, key and focus events, arriving at the idle loop or while a
\* handler callback or a paint is running (button events at most one level deep).
NextInput ==
    \/ CoreStep
    \/ DrawStep
    \/ \E cb \in InputCallbacks \cup {"lost_focus"} : Input(cb)
    \/ \E k \in Keys : KeyPressed(k)
    \/ \E k \in Keys : KeyReleased(k)
    \/ \E b \in ButtonIds, n \in PressCounts, m \in ButtonMasks :
          ButtonPressed(b, n, m) /\ Len(stack) <= 1
    \/ \E b \in ButtonIds, n \in PressCounts, m \in ButtonMasks :
          ButtonReleased(b, n, m) /\ Len(stack) <= 1

SpecInput == Init /\ [][NextInput]_vars

\* Teardown: the native callbacks and the handle operations before and after the
\* last strong reference is gone.  Callbacks are called from the idle loop only;
\* the handle is used by code outside the callbacks only: for timers and idle
\* work at any time (the window lives on while one of their sources is
\* installed), for the other operations once the window is gone.
NextDrop ==
    \/ CoreStep
    \/ DrawStep /\ Len(stack) <= 2
    \/ \E cb \in InputCallbacks : Input(cb) /\ stack = <<>>
    \/ \E k \in Keys : KeyPressed(k) /\ stack = <<>>
    \/ \E k \in Keys : KeyReleased(k) /\ stack = <<>>
    \/ \E t \in 1 .. MaxTimers : TimerFire(t) /\ stack = <<>>
    \/ RunIdle /\ stack = <<>>
    \/ \E id \in MenuIds : MenuActivate(id) /\ stack = <<>>
    \/ CommandReturn
    \/ Shutdown
    \/ \E r \in RectInputs : InvalidateRect(r) /\ ~Alive
    \/ \E kind \in {"Open", "SaveAs"} : OpenFile(kind) /\ ~Alive
    \/ ShowContextMenu /\ ~Alive
    \/ RequestTimer /\ stack = <<>>
    \/ \E q \in Queries : Query(q) /\ ~Alive
    \/ \E kind \in IdleKinds : AddIdle(kind) /\ stack = <<>>

SpecDrop == Init /\ [][NextDrop]_vars

\* ------------------------------------------------------------ properties
\* The draw function's activations that have swapped the region out.
Swapped(i) == stack[i].f = "draw" /\ stack[i].pc \in {"paint", "client"}

\* C1: the region a paint cycle swaps out and passes to paint covers exactly the
\* pixels touched by the rectangles invalidated since the previous swap, each
\* taken at the scale current when it was invalidated, and the accumulated
\* region is empty right after the swap.
C1_PaintRegion ==
    \A i \in 1 .. Len(stack) :
        Swapped(i) =>
            /\ RegionCells(stack[i].reg) = stack[i].exp
            /\ (i = Len(stack) /\ stack[i].pc = "paint") => invalid = {}

\* C1 witness: paint is running with a region of two rectangles, one of them a
\* rectangle that was not whole pixels when the client invalidated it.
C1_Witness ==
    \E i \in 1 .. Len(stack) :
        /\ Swapped(i) /\ stack[i].pc = "client"
        /\ Cardinality(stack[i].reg) >= 2
        /\ \E r \in RectInputs, s \in Scales :
              SnapRect(r, s) # r /\ SnapRect(r, s) \in stack[i].reg

\* A handler callback is running in frame j (the handler is borrowed for it).
InHandlerCall(j) == stack[j].pc = "client"

\* C2: a deferred operation runs only while no handler callback is on the stack:
\* no file dialog is open above a running handler callback, and no context menu
\* popped up while the handler was borrowed.
C2_DeferredOutsideHandler ==
    /\ ~hist.popupInHandler
    /\ \A i \in 1 .. Len(stack) :
          stack[i].pc = "dlg" => \A j \in 1 .. i : ~InHandlerCall(j)

\* File token t is still on its way: queued, in a batch run_deferred is working
\* through, or in the with_handler call that is about to pass it to the handler.
FilePending(t) ==
    \/ \E k \in 1 .. Len(deferred_queue) : deferred_queue[k].tok = t
    \/ \E i \in 1 .. Len(stack) :
          \/ \E k \in 1 .. Len(stack[i].batch) : stack[i].batch[k].tok = t
          \/ /\ stack[i].f = "wh" /\ stack[i].pc = "enter"
             /\ \E k \in 1 .. Len(stack[i].items) :
                   stack[i].items[k].cb \in {"open_file", "save_as"}
                   /\ stack[i].items[k].arg = t

\* C3: for every token open_file or save_as returned, the dialog opens once and
\* the handler's open_file or save_as callback is called once with that token: a
\* token that is no longer on its way has been delivered, exactly once.
C3_FileTokenDeliveredOnce ==
    \A t \in 1 .. nextFile :
        /\ hist.dlg[t] <= 1
        /\ hist.fileCb[t] <= 1
        /\ FilePending(t) \/ hist.fileCb[t] = 1

\* A with_handler attempt is about to find the handler borrowed.
SkippedAttempt ==
    IF stack = <<>> THEN FALSE
    ELSE Top.f = "wh" /\ Top.pc = "enter" /\ ~OtherCellsBorrowed /\ handlerBorrowed

\* C4: a with_handler attempt made while a handler call is active leaves the
\* invalid region, the surface, the deferred queue, the idle queue and the
\* last-pressed key as they were.
C4_SkippedAttemptChangesNothing ==
    [][SkippedAttempt =>
          UNCHANGED <<invalid, surface, surface_size, deferred_queue, idle_queue,
                      current_keycode>>]_vars

\* C5: every handler callback runs inside with_handler: whenever client code runs,
\* the frame it runs in is an activation of with_handler.
C5_CallbacksThroughWithHandler ==
    \A i \in 1 .. Len(stack) : InHandlerCall(i) => stack[i].f = "wh"

\* C9: build on a builder without a handler returns an error to its caller; it
\* does not panic.
C9_BuildWithoutHandlerReturnsError ==
    (buildResult # "none" /\ ~hasHandler) => (buildResult = "Err" /\ ~panicked)

\* Idle item i is in the queue; it is waiting in the batch a drain is delivering.
IdleInQueue(i) == \E k \in 1 .. Len(idle_queue) : idle_queue[k].arg = i

IdleInBatch(i) ==
    \E j \in 1 .. Len(stack) :
        /\ stack[j].ret = "idle" /\ stack[j].pc = "client"
        /\ \E k \in 2 .. Len(stack[j].items) : stack[j].items[k].arg = i

\* A call of run_idle is due: a source is installed, or a call that has not taken
\* the queue is running and will either take it or install a retry.
DrainPending ==
    \/ idleSources > 0
    \/ \E j \in 1 .. Len(stack) :
          /\ stack[j].ret = "idle"
          /\ stack[j].pc = "enter" \/ (stack[j].pc \in {"drain", "dlg"} /\ ~stack[j].res)

IdleSafe ==
    /\ ~blocked
    /\ idle_queue # <<>> => DrainPending
    /\ \A i \in 1 .. nextIdle :
          /\ hist.idleCb[i] <= 1
          /\ ~(IdleInQueue(i) /\ IdleInBatch(i))
          /\ (IdleInQueue(i) \/ IdleInBatch(i)) <=> hist.idleCb[i] = 0

\* C6: an idle item is enqueued without blocking on the queue's lock, also while a
\* drain runs; it then waits in the queue or in the batch of one drain until the
\* handler receives it, which happens, and happens once.
C6_IdleExactlyOnce ==
    /\ []IdleSafe
    /\ \A i \in 1 .. MaxIdle : (nextIdle >= i) ~> (hist.idleCb[i] = 1)

\* C6 witness: an item enqueued while a drain was delivering another item has
\* been delivered by a later drain.
C6_Witness ==
    /\ hist.drainOverlap
    /\ nextIdle >= 2 /\ \A i \in 1 .. nextIdle : hist.idleCb[i] = 1

TimerSafe ==
    \A t \in 1 .. nextTimer :
        /\ hist.timerCb[t] <= 1
        /\ t \in timers => (hist.timerCb[t] = 0 \/ TimerInCall(t))
        /\ t \notin timers => hist.timerCb[t] = 1

\* C7: the handler receives the token of a request_timer call on a live window
\* once: the source stays installed until a firing reaches the handler, is
\* removed by that firing, and a firing does reach the handler.
C7_TimerExactlyOnce ==
    /\ []TimerSafe
    /\ \A t \in 1 .. MaxTimers : (t \in timers) ~> (hist.timerCb[t] = 1 /\ t \notin timers)

\* C7 witness: a timer that fired while the handler was borrowed, and so stayed
\* installed, has been delivered and removed.
C7_Witness ==
    /\ nextTimer >= 1 /\ 1 \notin timers /\ hist.timerCb[1] = 1
    /\ hist.timerRetried

\* C8: the handler of a new window receives connect, scale and size first and in
\* this order, and has received all three when the window is shown.
C8_BuildOrder == ~hist.early /\ (shown => hist.init = Len(BuildOrder))

\* C8 witness: the window is shown and a timer callback has followed the three.
C8_Witness == shown /\ hist.init = Len(BuildOrder) /\ hist.timerCb[1] = 1

\* The window is gone: the weak reference of a handle no longer upgrades.
Dropped == Built /\ ~Alive

\* C10: once the window is gone, no operation of a handle and no native callback
\* changes the window's state, calls the handler or installs a source, and the
\* operations that return a value return None or WindowDropped.
C10_DroppedIsNoOp ==
    [][Dropped =>
          /\ UNCHANGED <<windowVars, appRef, idle_lock, nextFile, nextIdle, hist,
                         panicked, blocked>>
          /\ lastRet' \in {lastRet, "None", "WindowDropped"}]_vars

\* C10 witness: get_scale was called on a handle of a window that is gone.
C10_Witness == Dropped /\ lastRet = "WindowDropped"

\* Native shutdown has released the strong reference installed at construction.
ShutDown == buildResult = "Ok" /\ ~appRef

\* C11: after native shutdown no handle upgrades and the handler receives no
\* timer and no idle callback any more, whatever was pending at shutdown.
C11_NothingAfterShutdown ==
    [][ShutDown =>
          /\ ~Alive'
          /\ hist'.timerCb = hist.timerCb
          /\ hist'.idleCb = hist.idleCb]_vars

\* The handler callbacks of input and focus events.
EventCbs == {"mouse_move", "got_focus", "lost_focus", "key_down", "key_up",
             "mouse_down", "mouse_up"}

\* Frame fr is the with_handler call of an input or focus event's callback.
EventFrame(fr) ==
    /\ fr.f = "wh" /\ fr.ret = "event"
    /\ Len(fr.items) >= 1 /\ fr.items[1].cb \in EventCbs

\* The callback of an event is entering with_handler; its handler call is running.
EventAtEnter == IF stack = <<>> THEN FALSE ELSE EventFrame(Top) /\ Top.pc = "enter"

EventInClient == IF stack = <<>> THEN FALSE ELSE EventFrame(Top) /\ Top.pc = "client"

\* The step makes the top frame's handler call; no cell of the window is borrowed.
EnteredNext == Len(stack') = Len(stack) /\ stack'[Len(stack)].pc = "client"

CellsFree == ~invalidBorrowed /\ surfBorrows = 0 /\ ~handlerBorrowed

\* C12 as stated: every input or focus event that arrives at a live window gets
\* its handler call.
C12_EveryEventDelivered ==
    [][IF EventAtEnter THEN EnteredNext ELSE TRUE]_vars

\* C12 amended: an event gets its handler call exactly when no handler call and no
\* paint is running as it arrives (otherwise it is dropped), and the closure ends
\* after that one call.
C12_EventOnceUnlessBusy ==
    [][IF EventAtEnter THEN EnteredNext <=> CellsFree
       ELSE IF EventInClient /\ Len(stack') = Len(stack) /\ stack' # stack
       THEN stack'[Len(stack)].pc = "drain"
       ELSE TRUE]_vars

\* C12 witness: a key event's handler call is running, and a pointer event that
\* arrived meanwhile was dropped.
C12_Witness ==
    /\ Len(stack) = 2
    /\ EventFrame(stack[1]) /\ stack[1].pc = "client" /\ stack[1].items[1].cb = "key_down"
    /\ EventFrame(stack[2]) /\ stack[2].pc = "drain" /\ ~stack[2].res
    /\ stack[2].items[1].cb = "mouse_down"

\* ------------------------------------------------- surface size (C13)
\* Logical sizes a builder can be given (WindowBuilder::set_size), in half points.
SizeInputs == {1, 63, 64, 65, 400, 500, 512, 513}

LogicalSizes == {<<2 * w, 2 * h>> : w \in SizeInputs, h \in SizeInputs}

\* A builder holding a logical size, on a display reporting some scale.
InitSize ==
    /\ hasHandler = TRUE
    /\ buildResult = "none"
    /\ appRef = FALSE
    /\ shown = FALSE
    /\ panicked = FALSE
    /\ scale = 1
    /\ reported \in Scales
    /\ area \in {[px |-> <<0, 0>>, dp |-> d] : d \in LogicalSizes}
    /\ winPx = <<0, 0>>
    /\ surface = FALSE
    /\ surface_size = <<0, 0>>
    /\ surfBorrows = 0
    /\ invalid = {}
    /\ invalidBorrowed = FALSE
    /\ handlerBorrowed = FALSE
    /\ idle_queue = <<>>
    /\ idle_lock = FALSE
    /\ blocked = FALSE
    /\ idleSources = 0
    /\ current_keycode = 0
    /\ deferred_queue = <<>>
    /\ timers = {}
    /\ stack = <<>>
    /\ nextTimer = 0
    /\ nextFile = 0
    /\ nextIdle = 0
    /\ lastRet = "none"
    /\ hist = Hist0

\* build: the physical size of the area, requested as the window's default size.
RequestSize ==
    /\ winPx = <<0, 0>>
    /\ area' = [area EXCEPT !.px = SizePx(area.dp, reported)]
    /\ winPx' = SizePx(area.dp, reported)
    /\ scale' = reported
    /\ UNCHANGED <<hasHandler, buildResult, appRef, shown, panicked, reported,
                   surface, surface_size, surfBorrows, invalid, invalidBorrowed,
                   handlerBorrowed, idle_queue, idle_lock, blocked, idleSources,
                   current_keycode, deferred_queue, timers, stack, nextTimer,
                   nextFile, nextIdle, lastRet, hist>>

\* resize_surface(width, height) for the requested size: the first surface.
ResizeSurface ==
    /\ winPx # <<0, 0>> /\ ~surface
    /\ surface' = TRUE
    /\ surface_size' = ResizedSize(winPx)
    /\ UNCHANGED <<hasHandler, buildResult, appRef, shown, panicked, scale, reported,
                   area, winPx, surfBorrows, invalid, invalidBorrowed,
                   handlerBorrowed, idle_queue, idle_lock, blocked, idleSources,
                   current_keycode, deferred_queue, timers, stack, nextTimer,
                   nextFile, nextIdle, lastRet, hist>>

NextSurface == RequestSize \/ ResizeSurface

SpecSurface == InitSize /\ [][NextSurface]_vars

\* The default window: logical size (500, 400) at scale 1.0, surface allocated.
DefaultWindowSized == area.dp = <<1000, 800>> /\ scale = 1 /\ surface

\* C13 as stated: logical (500, 400) at scale 1.0 requests 500 x 400 physical
\* pixels, and the surface is bucketed to 512 x 416.
C13_Surface512x416 ==
    DefaultWindowSized => winPx = <<500, 400>> /\ surface_size = <<512, 416>>

\* C13 amended: logical (500, 400) at scale 1.0 requests 500 x 400 physical
\* pixels, and the surface is bucketed to 512 x 512 (both sides round up to a
\* multiple of 128).
C13_Surface512x512 ==
    DefaultWindowSized => winPx = <<500, 400>> /\ surface_size = <<512, 512>>

C13_Witness == DefaultWindowSized /\ surface_size[1] >= 500 /\ surface_size[2] >= 400

\* --------------------------------------------------- pure functions
\* Everything but the record of observations.
notHist == <<hasHandler, buildResult, appRef, shown, panicked, scale, reported, area,
             winPx, surface, surface_size, surfBorrows, invalid, invalidBorrowed,
             handlerBorrowed, idle_queue, idle_lock, blocked, idleSources,
             current_keycode, deferred_queue, timers, stack, nextTimer, nextFile,
             nextIdle, lastRet>>

\* No window has been built.
NoWindow ==
    /\ hasHandler = FALSE
    /\ buildResult = "none"
    /\ appRef = FALSE
    /\ shown = FALSE
    /\ panicked = FALSE
    /\ scale = 1
    /\ reported = 1
    /\ area = [px |-> <<0, 0>>, dp |-> <<0, 0>>]
    /\ winPx = <<1, 1>>
    /\ surface = FALSE
    /\ surface_size = <<0, 0>>
    /\ surfBorrows = 0
    /\ invalid = {}
    /\ invalidBorrowed = FALSE
    /\ handlerBorrowed = FALSE
    /\ idle_queue = <<>>
    /\ idle_lock = FALSE
    /\ blocked = FALSE
    /\ idleSources = 0
    /\ current_keycode = 0
    /\ deferred_queue = <<>>
    /\ timers = {}
    /\ stack = <<>>
    /\ nextTimer = 0
    /\ nextFile = 0
    /\ nextIdle = 0
    /\ lastRet = "none"

\* ------------------------------------------------------ key tables (C14)
\* The raw keys raw_key_to_key names, and some it does not.
RawKeys == {"Escape", "BackSpace", "Tab", "ISO_Left_Tab", "Return", "Control_L",
            "Control_R", "Alt_L", "Alt_R", "Shift_L", "Shift_R", "Super_L", "Super_R",
            "Caps_Lock", "F1", "F2", "F3", "F4", "F5", "F6", "F7", "F8", "F9", "F10",
            "F11", "F12", "Print", "Scroll_Lock", "Pause", "Insert", "Delete", "Home",
            "End", "Page_Up", "Page_Down", "Num_Lock", "Up", "Down", "Left", "Right",
            "Clear", "Menu", "WakeUp", "Launch0", "Launch1", "ISO_Level3_Shift",
            "KP_Begin", "KP_Delete", "KP_Down", "KP_End", "KP_Enter", "KP_F1", "KP_F2",
            "KP_F3", "KP_F4", "KP_Home", "KP_Insert", "KP_Left", "KP_Page_Down",
            "KP_Page_Up", "KP_Right", "KP_Tab", "KP_Up", "a", "KP_0", "KP_Separator",
            "Meta_L", "space"}

\* keycodes::raw_key_to_key; "None" when the raw key has no named key.
RawKeyToKey(raw) ==
    CASE raw = "Escape" -> "Escape"
      [] raw = "BackSpace" -> "Backspace"
      [] raw \in {"Tab", "ISO_Left_Tab"} -> "Tab"
      [] raw = "Return" -> "Enter"
      [] raw \in {"Control_L", "Control_R"} -> "Control"
      [] raw \in {"Alt_L", "Alt_R"} -> "Alt"
      [] raw \in {"Shift_L", "Shift_R"} -> "Shift"
      [] raw \in {"Super_L", "Super_R"} -> "Meta"
      [] raw = "Caps_Lock" -> "CapsLock"
      [] raw = "F1" -> "F1"
      [] raw = "F2" -> "F2"
      [] raw = "F3" -> "F3"
      [] raw = "F4" -> "F4"
      [] raw = "F5" -> "F5"
      [] raw = "F6" -> "F6"
      [] raw = "F7" -> "F7"
      [] raw = "F8" -> "F8"
      [] raw = "F9" -> "F9"
      [] raw = "F10" -> "F10"
      [] raw = "F11" -> "F11"
      [] raw = "F12" -> "F12"
      [] raw = "Print" -> "PrintScreen"
      [] raw = "Scroll_Lock" -> "ScrollLock"
      [] raw = "Pause" -> "Pause"
      [] raw = "Insert" -> "Insert"
      [] raw = "Delete" -> "Delete"
      [] raw = "Home" -> "Home"
      [] raw = "End" -> "End"
      [] raw = "Page_Up" -> "PageUp"
      [] raw = "Page_Down" -> "PageDown"
      [] raw = "Num_Lock" -> "NumLock"
      [] raw = "Up" -> "ArrowUp"
      [] raw = "Down" -> "ArrowDown"
      [] raw = "Left" -> "ArrowLeft"
      [] raw = "Right" -> "ArrowRight"
      [] raw = "Clear" -> "Clear"
      [] raw = "Menu" -> "ContextMenu"
      [] raw = "WakeUp" -> "WakeUp"
      [] raw = "Launch0" -> "LaunchApplication1"
      [] raw = "Launch1" -> "LaunchApplication2"
      [] raw = "ISO_Level3_Shift" -> "AltGraph"
      [] raw = "KP_Begin" -> "Clear"
      [] raw = "KP_Delete" -> "Delete"
      [] raw = "KP_Down" -> "ArrowDown"
      [] raw = "KP_End" -> "End"
      [] raw = "KP_Enter" -> "Enter"
      [] raw = "KP_F1" -> "F1"
      [] raw = "KP_F2" -> "F2"
      [] raw = "KP_F3" -> "F3"
      [] raw = "KP_F4" -> "F4"
      [] raw = "KP_Home" -> "Home"
      [] raw = "KP_Insert" -> "Insert"
      [] raw = "KP_Left" -> "ArrowLeft"
      [] raw = "KP_Page_Down" -> "PageDown"
      [] raw = "KP_Page_Up" -> "PageUp"
      [] raw = "KP_Right" -> "ArrowRight"
      [] raw = "KP_Tab" -> "Tab"
      [] raw = "KP_Up" -> "ArrowUp"
      [] OTHER -> "None"

\* keycodes::key_to_raw_key; "None" when the key has no raw key.
KeyToRawKey(key) ==
    CASE key = "Escape" -> "Escape"
      [] key = "Backspace" -> "BackSpace"
      [] key = "Tab" -> "Tab"
      [] key = "Enter" -> "Return"
      [] key = "Control" -> "Control_L"
      [] key = "Alt" -> "Alt_L"
      [] key = "Shift" -> "Shift_L"
      [] key = "Meta" -> "Super_L"
      [] key = "CapsLock" -> "Caps_Lock"
      [] key = "F1" -> "F1"
      [] key = "F2" -> "F2"
      [] key = "F3" -> "F3"
      [] key = "F4" -> "F4"
      [] key = "F5" -> "F5"
      [] key = "F6" -> "F6"
      [] key = "F7" -> "F7"
      [] key = "F8" -> "F8"
      [] key = "F9" -> "F9"
      [] key = "F10" -> "F10"
      [] key = "F11" -> "F11"
      [] key = "F12" -> "F12"
      [] key = "PrintScreen" -> "Print"
      [] key = "ScrollLock" -> "Scroll_Lock"
      [] key = "Pause" -> "Pause"
      [] key = "Insert" -> "Insert"
      [] key = "Delete" -> "Delete"
      [] key = "Home" -> "Home"
      [] key = "End" -> "End"
      [] key = "PageUp" -> "Page_Up"
      [] key = "PageDown" -> "Page_Down"
      [] key = "NumLock" -> "Num_Lock"
      [] key = "ArrowUp" -> "Up"
      [] key = "ArrowDown" -> "Down"
      [] key = "ArrowLeft" -> "Left"
      [] key = "ArrowRight" -> "Right"
      [] key = "ContextMenu" -> "Menu"
      [] key = "WakeUp" -> "WakeUp"
      [] key = "LaunchApplication1" -> "Launch0"
      [] key = "LaunchApplication2" -> "Launch1"
      [] key = "AltGraph" -> "ISO_Level3_Shift"
      [] OTHER -> "None"

\* A raw key, and what the two conversions have made of it so far ("?": not yet
\* applied).
InitKeys ==
    /\ NoWindow
    /\ hist \in {[raw |-> r, key |-> "?", back |-> "?", again |-> "?"] : r \in RawKeys}

\* make_key_event: raw_key_to_key(raw)
ToKey ==
    /\ hist.key = "?"
    /\ hist' = [hist EXCEPT !.key = RawKeyToKey(hist.raw)]
    /\ UNCHANGED notHist

\* register_accelerator: key_to_raw_key(key), for a named key
ToRawKey ==
    /\ hist.key \notin {"?", "None"} /\ hist.back = "?"
    /\ hist' = [hist EXCEPT !.back = KeyToRawKey(hist.key)]
    /\ UNCHANGED notHist

\* raw_key_to_key of the raw key that came back
ToKeyAgain ==
    /\ hist.back \notin {"?", "None"} /\ hist.again = "?"
    /\ hist' = [hist EXCEPT !.again = RawKeyToKey(hist.back)]
    /\ UNCHANGED notHist

NextKeys == ToKey \/ ToRawKey \/ ToKeyAgain

SpecKeys == InitKeys /\ [][NextKeys]_vars

\* C14: a raw key that maps to a named key k comes back from key_to_raw_key(k)
\* as a raw key that maps to k again.
C14_KeyRoundTrip ==
    (hist.key \notin {"?", "None"} /\ hist.back # "?") =>
        /\ hist.back # "None"
        /\ hist.again # "?" => hist.again = hist.key

\* ------------------------------------------------ pointer buttons (C15)
\* The button a native button id stands for, and the button a modifier mask bit
\* stands for.
ButtonOfId == (1 :> "Left" @@ 2 :> "Middle" @@ 3 :> "Right" @@ 8 :> "X1" @@ 9 :> "X2")

ButtonOfMask == (1 :> "Left" @@ 2 :> "Middle" @@ 3 :> "Right" @@ 4 :> "X1" @@ 5 :> "X2")

ModifierButtons(m) == {ButtonOfMask[i] : i \in m}

\* Frame fr is the with_handler call of a press with count 1 or of a release.
ClickFrame(fr) ==
    \/ fr.ev.kind = "press" /\ fr.ev.n = 1
    \/ fr.ev.kind = "release"

\* What the claim has a click deliver.
ExpectedClick(ev) ==
    IF ev.b \notin DOMAIN ButtonOfId THEN <<>>
    ELSE IF ev.kind = "press"
    THEN <<Cb("mouse_down", [button |-> ButtonOfId[ev.b], count |-> 1,
                             buttons |-> ModifierButtons(ev.m) \cup {ButtonOfId[ev.b]}])>>
    ELSE <<Cb("mouse_up", [button |-> ButtonOfId[ev.b], count |-> 0,
                           buttons |-> ModifierButtons(ev.m) \ {ButtonOfId[ev.b]}])>>

\* C15: a press with count 1 delivers mouse_down with the mapped button, count 1
\* and the modifier buttons plus that button; a release delivers mouse_up with
\* the mapped button and the modifier buttons minus it; a button id outside
\* 1, 2, 3, 8, 9 delivers neither.
C15_PressThenRelease ==
    \A i \in 1 .. Len(stack) :
        ClickFrame(stack[i]) /\ stack[i].pc \in {"enter", "client"} =>
            stack[i].items = ExpectedClick(stack[i].ev)

\* C15 witness: with buttons 1 and 4 in the modifier state, the release of
\* button 1 is being delivered as mouse_up(Left, buttons = {X1}).
C15_Witness ==
    /\ Len(stack) = 1 /\ Top.pc = "client" /\ Top.ev.kind = "release"
    /\ Top.ev.b = 1 /\ Top.ev.m = {1, 4} /\ handlerBorrowed
    /\ Top.items[1].cb = "mouse_up" /\ Top.items[1].arg.buttons = {"X1"}

\* ------------------------------------------------------- menus (C16)
\* MenuItem::Entry, MenuItem::Separator, MenuItem::SubMenu
Entry(name, id) == [t |-> "Entry", name |-> name, id |-> id, menu |-> <<>>]

Separator == [t |-> "Separator", name |-> "", id |-> 0, menu |-> <<>>]

SubMenu(name, menu) == [t |-> "SubMenu", name |-> name, id |-> 0, menu |-> menu]

MaxMenuLen == 3
MaxSubLen == 2

\* Sequences over a set of items, up to a length.
SeqsUpTo(S, n) == UNION {[1 .. k -> S] : k \in 0 .. n}

\* The menus a client can build with add_item, add_separator and add_dropdown.
SubMenus == SeqsUpTo({Entry("Copy", 2), Separator}, MaxSubLen)

Menus == SeqsUpTo({Entry("Save", 1), Entry("Save", 3), Entry("sep1", 4), Separator}
                      \cup {SubMenu("Edit", sub) : sub \in SubMenus},
                  MaxMenuLen)

\* The detailed action of an item appended with None.
NoAction == -1

\* A native model item: gio Menu::append(label, detailed_action) and
\* append_submenu(label, model).
GioItem(label, action) == [label |-> label, action |-> action, isSub |-> FALSE, sub |-> <<>>]

GioSubmenu(label, model) == [label |-> label, action |-> NoAction, isSub |-> TRUE, sub |-> model]

\* Menu::append_items_to_giomenu: the items from index k on, i separators seen.
RECURSIVE AppendItemsToGiomenuFrom(_, _, _)
AppendItemsToGiomenuFrom(items, k, i) ==
    IF k > Len(items) THEN <<>>
    ELSE LET item == items[k]
         IN IF item.t = "Entry"
            THEN <<GioItem(item.name, NoAction)>> \o AppendItemsToGiomenuFrom(items, k + 1, i)
            ELSE IF item.t = "SubMenu"
            THEN <<GioSubmenu(item.name, AppendItemsToGiomenuFrom(item.menu, 1, 0))>>
                    \o AppendItemsToGiomenuFrom(items, k + 1, i)
            ELSE <<GioItem("sep" \o ToString(i + 1), NoAction)>>
                    \o AppendItemsToGiomenuFrom(items, k + 1, i + 1)

AppendItemsToGiomenu(items) == AppendItemsToGiomenuFrom(items, 1, 0)

\* A child of the display widget: add_child(widget, id), with the command its
\* activation sends and, for a MenuButton, the children of its popover.
Child(id, widget, command, children) ==
    [id |-> id, widget |-> widget, command |-> command, children |-> children]

\* Menu::append_items_to_menu and append_items_to_menu_nonbar (the same loop):
\* the items from index k on, i separators seen.  A submenu's popover is built
\* by into_gtk_menu.
RECURSIVE AppendItemsToMenuFrom(_, _, _)
AppendItemsToMenuFrom(items, k, i) ==
    IF k > Len(items) THEN <<>>
    ELSE LET item == items[k]
         IN IF item.t = "Entry"
            THEN <<Child(item.name, "Button", item.id, <<>>)>>
                    \o AppendItemsToMenuFrom(items, k + 1, i)
            ELSE IF item.t = "SubMenu"
            THEN <<Child(item.name, "MenuButton", NoAction,
                         AppendItemsToMenuFrom(item.menu, 1, 0))>>
                    \o AppendItemsToMenuFrom(items, k + 1, i)
            ELSE <<Child("sep" \o ToString(i + 1), "Separator", NoAction, <<>>)>>
                    \o AppendItemsToMenuFrom(items, k + 1, i + 1)

AppendItemsToMenu(items) == AppendItemsToMenuFrom(items, 1, 0)

AppendItemsToMenuNonbar(items) == AppendItemsToMenuFrom(items, 1, 0)

\* A menu a client built, not yet attached.
InitMenu ==
    /\ NoWindow
    /\ hist \in {[menu |-> mn, model |-> <<>>, widgets |-> <<>>, done |-> FALSE,
                  bar |-> FALSE] : mn \in Menus}

\* Menu::into_gtk_menubar: the native model of the menu bar.
IntoGtkMenubar ==
    /\ ~hist.done
    /\ hist' = [hist EXCEPT !.model = AppendItemsToGiomenu(hist.menu),
                            !.widgets = AppendItemsToMenu(hist.menu),
                            !.done = TRUE, !.bar = TRUE]
    /\ UNCHANGED notHist

\* Menu::into_gtk_menu: the native model of a popup menu.
IntoGtkMenu ==
    /\ ~hist.done
    /\ hist' = [hist EXCEPT !.model = AppendItemsToGiomenu(hist.menu),
                            !.widgets = AppendItemsToMenuNonbar(hist.menu),
                            !.done = TRUE]
    /\ UNCHANGED notHist

NextMenu == IntoGtkMenubar \/ IntoGtkMenu

SpecMenu == InitMenu /\ [][NextMenu]_vars

\* The number of separators among the first k items.
RECURSIVE SeparatorsUpTo(_, _)
SeparatorsUpTo(items, k) ==
    IF k = 0 THEN 0
    ELSE SeparatorsUpTo(items, k - 1) + (IF items[k].t = "Separator" THEN 1 ELSE 0)

\* The native model has one item per logical item, in order: separators named
\* by their rank, submenus holding the model of their nested menu, and (withIds)
\* entries carrying their numeric id.
RECURSIVE ModelMatches(_, _, _)
ModelMatches(items, model, withIds) ==
    /\ Len(model) = Len(items)
    /\ \A k \in 1 .. Len(items) :
          IF items[k].t = "Entry"
          THEN /\ model[k].label = items[k].name /\ ~model[k].isSub
               /\ withIds => model[k].action = items[k].id
          ELSE IF items[k].t = "Separator"
          THEN model[k].label = "sep" \o ToString(SeparatorsUpTo(items, k))
          ELSE /\ model[k].label = items[k].name /\ model[k].isSub
               /\ ModelMatches(items[k].menu, model[k].sub, withIds)

\* C16: the native model of a menu mirrors the tree item by item, the n-th
\* separator is named sep<n>, a submenu's model holds exactly its nested entries,
\* and every entry carries its numeric id.
C16_MenuModelMirrorsTree ==
    hist.done => ModelMatches(hist.menu, hist.model, TRUE)

\* ------------------------------------------------- timer delay (C17)
\* Instants, in ticks of the monotonic clock.
MaxInstant == 9

Instants == 0 .. MaxInstant

\* A variant that measures the distance between the two instants.
CheckedDurationSinceAbs(later, earlier) ==
    [some |-> TRUE, d |-> IF later >= earlier THEN later - earlier ELSE earlier - later]

\* Instant::checked_duration_since: None when `earlier` is later than self.
CheckedDurationSince(later, earlier) ==
    IF later >= earlier THEN [some |-> TRUE, d |-> later - earlier]
    ELSE [some |-> FALSE, d |-> 0]

\* Option<Duration>::unwrap_or_default
UnwrapOrDefault(o) == IF o.some THEN o.d ELSE 0

\* A deadline a client chose, and the clock at the call of request_timer.
InitDelay ==
    /\ NoWindow
    /\ hist \in {[deadline |-> dl, now |-> nw, interval |-> 0, done |-> FALSE] :
                    dl \in Instants, nw \in Instants}

\* request_timer: the interval handed to timeout_add.
TimerInterval ==
    /\ ~hist.done
    /\ hist' = [hist EXCEPT
                  !.interval = UnwrapOrDefault(CheckedDurationSince(hist.deadline, hist.now)),
                  !.done = TRUE]
    /\ UNCHANGED notHist

NextDelay == TimerInterval

SpecDelay == InitDelay /\ [][NextDelay]_vars

\* C17: the delay handed to the native timeout is max(0, deadline - now): zero
\* for a deadline at or before the current instant, and never negative.
C17_DelayNeverNegative ==
    hist.done =>
        /\ hist.interval >= 0
        /\ hist.deadline <= hist.now => hist.interval = 0
        /\ hist.deadline > hist.now => hist.interval = hist.deadline - hist.now

\* C17 witness: a deadline in the past got the delay zero.
C17_Witness == hist.done /\ hist.deadline < hist.now /\ hist.interval = 0

\* C18: a borrow conflict on a cell of the window state never panics: once the
\* window is built (build's own panic is not a borrow conflict), no operation
\* panics; menu activation, resize_surface and defer skip and return.
C18_BorrowConflictNeverPanics == buildResult = "Ok" => ~panicked

\* with_handler has been called while the invalid-region cell or the surface
\* cell is borrowed.
CalledWithCellsBorrowed ==
    IF stack = <<>> THEN FALSE
    ELSE Top.f = "wh" /\ Top.pc = "enter" /\ (invalidBorrowed \/ surfBorrows > 0)

\* C19: with_handler called while the invalid-region cell or the surface cell is
\* borrowed returns at once with no result: the closure is not invoked (the handler
\* is not borrowed, no callback is delivered), a timer's source stays installed,
\* and nothing is drained.
C19_RefusedWhenCellsBorrowed ==
    [][IF CalledWithCellsBorrowed
       THEN /\ stack' = Pop
            /\ handlerBorrowed' = handlerBorrowed
            /\ deferred_queue' = deferred_queue
            /\ hist'.timerCb = hist.timerCb /\ hist'.idleCb = hist.idleCb
            /\ hist'.init = hist.init
            /\ timers' = timers
       ELSE TRUE]_vars

\* C19 witness: a pointer event calls with_handler while the paint callback
\* holds the surface.
C19_Witness ==
    /\ CalledWithCellsBorrowed /\ surfBorrows > 0 /\ Len(stack) >= 2
    /\ Top.ev.kind = "press" /\ Top.items # <<>>

\* The with_handler call on top invoked its closure and is returning: its
\* run_deferred has nothing left.
ReturningAfterClosure ==
    IF stack = <<>> THEN FALSE
    ELSE Top.f = "wh" /\ Top.pc = "drain" /\ Top.res /\ Top.batch = <<>>

\* File operation t still waits in the batch of a run_deferred further down.
InLowerBatch(t) ==
    \E i \in 1 .. Len(stack) - 1 :
        \E k \in 1 .. Len(stack[i].batch) : stack[i].batch[k].tok = t

\* C20: when with_handler returns after it invoked the closure, the deferred
\* queue is empty and every file operation deferred so far has been run (its
\* dialog was opened), those deferred during the drain included.
C20_QueueEmptyOnReturn ==
    ReturningAfterClosure =>
        /\ deferred_queue = <<>>
        /\ \A t \in 1 .. nextFile : hist.dlg[t] >= 1 \/ InLowerBatch(t)

\* C20 witness: the outermost with_handler returns after a drain that opened a
\* dialog and delivered its result, a context menu having been deferred on the way.
C20_Witness ==
    /\ ReturningAfterClosure /\ Len(stack) = 1
    /\ nextFile = 1 /\ hist.dlg[1] = 1 /\ hist.fileCb[1] = 1
    /\ hist.popupInHandler = FALSE /\ deferred_queue = <<>>

\* --------------------------------------- deferral from callbacks (C21)
\* Deferred operations requested by client code only while one of its handler
\* callbacks is running.
NextDefer ==
    \/ CoreStep
    \/ DialogReturn
    \/ DrawStep
    \/ Input("mouse_move")
    \/ \E id \in MenuIds : MenuActivate(id)
    \/ CommandReturn
    \/ \E kind \in {"Open", "SaveAs"} : OpenFile(kind) /\ stack # <<>>
    \/ ShowContextMenu /\ stack # <<>>

SpecDefer == Init /\ [][NextDefer]_vars

\* C21: whenever control is back in the native loop (no callback of the window
\* is on the stack), the deferred queue is empty: what a handler callback
\* deferred was run before its native entry point returned.
C21_QueueEmptyInLoop == stack = <<>> => deferred_queue = <<>>

\* ------------------------------------------------- paint cycle (C22)
\* Frame i is a draw function; the with_handler call it is waiting for makes
\* callback cb.
CycleCallback(i, cb) ==
    /\ stack[i].f = "draw" /\ i < Len(stack)
    /\ stack[i + 1].f = "wh" /\ stack[i + 1].items # <<>>
    /\ stack[i + 1].items[1].cb = cb

\* Where in its cycle a draw function is when each callback is made: scale and
\* size before prepare_paint, paint after the swap that follows prepare_paint.
CycleOrdered ==
    \A i \in 1 .. Len(stack) :
        /\ CycleCallback(i, "scale") => stack[i].pc = "size" /\ stack[i].chg
        /\ CycleCallback(i, "size") => stack[i].pc = "inval"
        /\ CycleCallback(i, "prepare_paint") => stack[i].pc = "swap"
        /\ (stack[i].f = "draw" /\ stack[i].items # <<>>) =>
              stack[i].pc = "client" /\ stack[i].items = <<Cb("paint", 0)>>

\* The callback the step hands to with_handler on behalf of the draw function on
\* top, "none" if it makes no call.
CallMade ==
    IF Len(stack') = Len(stack) + 1 /\ stack'[Len(stack')].f = "wh"
    THEN stack'[Len(stack')].items[1].cb
    ELSE "none"

\* The draw function on top moves from stage `from` to stage `to`.
Moves(from, to) ==
    /\ Top.pc = from
    /\ Len(stack') >= Len(stack) /\ stack'[Len(stack)].pc = to

\* One step of the draw function on top of the stack (a step that leaves the
\* stack alone is the platform's or the client's, not the draw function's).
CycleStep ==
    IF stack = <<>> THEN TRUE
    ELSE IF Top.f # "draw" \/ panicked' \/ stack' = stack THEN TRUE
    ELSE \/ /\ Moves("start", "size")
            /\ IF scale # reported
               THEN CallMade = "scale" /\ scale' = reported
               ELSE CallMade = "none" /\ scale' = scale
         \/ /\ Top.pc = "size"
            /\ IF ~surface \/ Top.chg \/ area.px # Top.w
               THEN Moves("size", "inval") /\ CallMade = "size"
               ELSE Moves("size", "prep") /\ CallMade = "none"
         \/ /\ Moves("inval", "prep") /\ CallMade = "none"
            /\ \/ invalidBorrowed
               \/ SnapRect(SizeToRect(SizeDp(Top.w, Top.sc)), scale) \in invalid'
               \/ RectArea(SizeToRect(SizeDp(Top.w, Top.sc))) = 0
         \/ Moves("prep", "swap") /\ CallMade = "prepare_paint"
         \/ Moves("swap", "paint") /\ CallMade = "none"
         \/ /\ Top.pc = "paint"
            /\ \/ Moves("paint", "client") /\ stack'[Len(stack)].items = <<Cb("paint", 0)>>
               \/ stack' = Pop
         \/ /\ Top.pc = "client"
            /\ \/ stack' = Pop
               \/ Len(stack') >= Len(stack) /\ stack'[Len(stack)] = Top

\* C22: in every paint cycle the callbacks are made in the order scale (only if
\* the reported scale differs from the cached one, which is then updated), size
\* with a full-area invalidation (only if there is no surface, the scale changed
\* or the size differs), prepare_paint, paint; neither scale nor size follows
\* prepare_paint and paint never precedes it.
C22_PaintCycleOrder == []CycleOrdered /\ [][CycleStep]_vars

\* C22 witness: a cycle that found the scale changed has reached its paint
\* callback.
C22_Witness ==
    /\ Len(stack) = 1 /\ Top.f = "draw" /\ Top.pc = "client" /\ Top.chg
    /\ Top.items = <<Cb("paint", 0)>> /\ scale = 2

\* The paint callback of the draw function in frame i is running.
PaintRunning(i) == stack[i].f = "draw" /\ stack[i].pc = "client"

\* C23: the paint callback never runs while the surface cell holds no surface;
\* a cycle that comes to its paint step without a surface ends without calling
\* paint.
C23_NoPaintWithoutSurface ==
    /\ [](\A i \in 1 .. Len(stack) : PaintRunning(i) => surface /\ surfBorrows >= 1)
    /\ [][IF stack = <<>> THEN TRUE
          ELSE (Top.f = "draw" /\ Top.pc = "paint" /\ ~surface) =>
                  stack' = Pop \/ stack' = stack]_vars

\* C23 witness: the first paint callback of a window is running, on the surface
\* this cycle allocated.
C23_Witness ==
    /\ Len(stack) = 1 /\ PaintRunning(1) /\ surface /\ surfBorrows = 1
    /\ surface_size = ResizedSize(Top.w)

\* A draw function has swapped out a region that holds rectangles invalidated
\* while a paint callback further down was (and still is) running.
SwappedDuringPaint ==
    IF stack = <<>> THEN FALSE
    ELSE /\ Top.f = "draw" /\ Top.pc = "paint" /\ Top.reg # {}
         /\ \E i \in 1 .. Len(stack) - 1 : PaintRunning(i)

\* C24: a rectangle invalidated while paint is running is not in the running
\* paint's region, stays in the accumulator, and is delivered in the region of
\* the next paint cycle: the cycle that swaps it out calls paint with it.
C24_InvalidatedDuringPaintIsPaintedNext ==
    /\ [][\A i \in 1 .. Len(stack) :
             (PaintRunning(i) /\ Len(stack') >= i) => stack'[i].reg = stack[i].reg]_vars
    /\ [][SwappedDuringPaint =>
             \/ stack' = stack
             \/ /\ Len(stack') = Len(stack)
                /\ stack'[Len(stack)].pc = "client"
                /\ stack'[Len(stack)].reg = Top.reg]_vars

\* ------------------------------------------------ idle order (C25)
\* Idle items are numbered in the order of their enqueueing.  A sequence of items
\* is in that order.
InOrder(items) ==
    \A k \in 1 .. Len(items) - 1 : items[k].arg < items[k + 1].arg

\* Frame j is a run_idle whose closure is delivering a batch.
IdleDelivering(j) == stack[j].ret = "idle" /\ stack[j].pc = "client"

\* No item has reached the handler before an item enqueued earlier; the batches
\* and the queue hold their items in order, the queue's after every batch's.
IdleFifo ==
    /\ \A i \in 1 .. nextIdle : \A j \in i + 1 .. nextIdle :
          hist.idleCb[j] >= 1 => hist.idleCb[i] >= 1
    /\ InOrder(idle_queue)
    /\ \A j \in 1 .. Len(stack) :
          IdleDelivering(j) =>
             /\ InOrder(stack[j].items)
             /\ \A k \in 1 .. Len(stack[j].items) : \A m \in 1 .. Len(idle_queue) :
                   stack[j].items[k].arg < idle_queue[m].arg

\* A run_idle that reaches the handler takes the whole queue and leaves it
\* empty, and its closure goes through the batch item by item.  (A step that
\* leaves the stack alone is another thread's enqueueing.)
IdleSwapStep ==
    IF stack = <<>> THEN TRUE
    ELSE IF Top.ret # "idle" THEN TRUE
    ELSE /\ (Top.pc = "enter" /\ CellsFree /\ stack' # stack) =>
               /\ idle_queue' = <<>>
               /\ idle_queue # <<>> =>
                     /\ stack'[Len(stack)].pc = "client"
                     /\ stack'[Len(stack)].items = idle_queue
         /\ (Top.pc = "client" /\ Len(Top.items) > 1 /\ Len(stack') = Len(stack)
                /\ stack' # stack) =>
               /\ stack'[Len(stack)].pc = "client"
               /\ stack'[Len(stack)].items = Tail(Top.items)

\* C25: idle items reach the handler in the order of their enqueueing, across
\* drains and retries, and a run_idle that reaches the handler delivers every
\* item that was queued when it swapped the queue out, leaving none queued.
C25_IdleFifo == []IdleFifo /\ [][IdleSwapStep]_vars

\* C25 witness: one drain took two items and is delivering the second, with
\* the first delivered.
C25_Witness ==
    \E j \in 1 .. Len(stack) :
        /\ IdleDelivering(j) /\ stack[j].items # <<>>
        /\ stack[j].items[1].arg = 2 /\ hist.idleCb[1] = 1 /\ hist.idleCb[2] = 1

\* ------------------------------------------- idle scheduling (C26)
\* The step pushes an idle item (add_idle_callback or add_idle_token on a live
\* window).
IdlePushed == nextIdle' = nextIdle + 1

\* C26: a push schedules a drain exactly when the queue was empty just before
\* it, and at no time is more than one drain (idle source or retry timeout)
\* waiting to start.
C26_NoDoubleScheduling ==
    /\ [](idleSources <= 1)
    /\ [][IdlePushed =>
             /\ idle_queue' = Append(idle_queue, idle_queue'[Len(idle_queue')])
             /\ idleSources' = IF idle_queue = <<>> THEN idleSources + 1 ELSE idleSources]_vars

\* C26 witness: two items are queued behind a single scheduled drain.
C26_Witness == Len(idle_queue) = 2 /\ idleSources = 1 /\ stack = <<>>

\* ------------------------------------------------- idle retry (C27)
\* The run_idle on top got no result from with_handler and has not returned yet.
IdleRefused ==
    IF stack = <<>> THEN FALSE
    ELSE Top.ret = "idle" /\ Top.pc = "drain" /\ ~Top.res

\* One step of the run_idle on top of the stack.
IdleRetryStep ==
    IF stack = <<>> THEN TRUE
    ELSE IF Top.ret # "idle" \/ stack' = stack THEN TRUE
    ELSE /\ (Top.pc = "enter" /\ ~CellsFree) =>
               /\ idle_queue' = idle_queue /\ hist'.idleCb = hist.idleCb
               /\ handlerBorrowed' = handlerBorrowed
               /\ IF stack' = Pop THEN idleSources' = idleSources + 1
                  ELSE /\ idleSources' = idleSources
                       /\ stack'[Len(stack)].pc = "drain" /\ ~stack'[Len(stack)].res
         /\ (IdleRefused /\ stack' = Pop) =>
               idle_queue' = idle_queue /\ idleSources' = idleSources + 1
         /\ (Top.pc = "drain" /\ Top.res /\ stack' = Pop) => idleSources' = idleSources

\* C27: a run_idle that cannot reach the handler leaves the idle queue as it was
\* and delivers nothing, schedules exactly one retry and does not repeat its own
\* source; the items that were queued reach the handler in a later drain.
C27_IdleRetry ==
    /\ [][IdleRetryStep]_vars
    /\ \A i \in 1 .. MaxIdle : (IdleRefused /\ IdleInQueue(i)) ~> (hist.idleCb[i] = 1)

\* C27 witness: a run_idle nested in a handler callback got no result; its item
\* is still queued and no other drain is scheduled.
C27_Witness ==
    /\ IdleRefused /\ Len(stack) = 2 /\ stack[1].pc = "client"
    /\ idle_queue # <<>> /\ idleSources = 0 /\ hist.idleCb[idle_queue[1].arg] = 0

\* ------------------------------------------- deferred order (C28)
\* The with_handler call on top starts run_deferred in this step.
DrainStarts ==
    /\ Top.f = "wh" /\ Top.pc \in {"enter", "client"}
    /\ Len(stack') = Len(stack) /\ stack'[Len(stack)].pc = "drain"

\* One step seen from the deferred queue: defer appends; run_deferred takes the
\* whole queue as it stands; the drain runs the first operation of what is left
\* of its batch, a file dialog's result going to the handler before the next.
DeferredOrderStep ==
    IF stack' = stack
    THEN deferred_queue' # deferred_queue =>
            /\ Len(deferred_queue') = Len(deferred_queue) + 1
            /\ SubSeq(deferred_queue', 1, Len(deferred_queue)) = deferred_queue
    ELSE IF stack = <<>> THEN TRUE
    ELSE IF DrainStarts
    THEN stack'[Len(stack)].batch = deferred_queue /\ deferred_queue' = <<>>
    ELSE IF Top.f = "wh" /\ Top.pc = "drain" /\ Top.batch # <<>>
    THEN /\ Len(stack') = Len(stack)
         /\ IF Head(Top.batch).op = "ContextMenu"
            THEN /\ stack'[Len(stack)].pc = "drain"
                 /\ stack'[Len(stack)].batch = Tail(Top.batch)
            ELSE /\ stack'[Len(stack)].pc = "dlg"
                 /\ stack'[Len(stack)].batch = Top.batch
                 /\ hist'.dlg[Head(Top.batch).tok] >= 1
    ELSE IF Top.f = "wh" /\ Top.pc = "dlg" /\ stack'[Len(stack)].pc # "dlg"
    THEN /\ stack'[Len(stack)].pc = "drain"
         /\ stack'[Len(stack)].batch = Tail(Top.batch)
         /\ Len(stack') = Len(stack) + 1
         /\ stack'[Len(stack')].items[1].arg = Head(Top.batch).tok
    ELSE TRUE

\* C28: within one run_deferred drain the operations it swapped out of the queue
\* are executed in the order in which they were deferred.
C28_DeferredFifo == [][DeferredOrderStep]_vars

\* C28 witness: a drain that took a file operation followed by a context menu
\* has the file dialog open, the context menu waiting behind it.
C28_Witness ==
    /\ stack # <<>> /\ Top.f = "wh" /\ Top.pc = "dlg" /\ Len(Top.batch) = 2
    /\ Top.batch[1].op \in {"Open", "SaveAs"} /\ Top.batch[2].op = "ContextMenu"

\* ------------------------------------------------------- key repeat (C29)
\* The frame a step has pushed is a with_handler call for callback cb.
KeyArrives(cb) ==
    IF Len(stack') # Len(stack) + 1 THEN FALSE
    ELSE IF stack'[Len(stack')].items = <<>> THEN FALSE
    ELSE stack'[Len(stack')].items[1].cb = cb

ArrivedKeyEvent == stack'[Len(stack')].items[1].arg

KeyCellStep ==
    IF KeyArrives("key_down")
    THEN /\ ArrivedKeyEvent.repeat = (current_keycode = ArrivedKeyEvent.key)
         /\ ArrivedKeyEvent.state = "Down"
         /\ current_keycode' = ArrivedKeyEvent.key
    ELSE IF KeyArrives("key_up")
    THEN /\ ArrivedKeyEvent.repeat = FALSE
         /\ ArrivedKeyEvent.state = "Up"
         /\ current_keycode' = IF current_keycode = ArrivedKeyEvent.key THEN 0
                               ELSE current_keycode
    ELSE current_keycode' = current_keycode

KeyUpNeverRepeats ==
    \A i \in 1 .. Len(stack) : \A k \in 1 .. Len(stack[i].items) :
        stack[i].items[k].cb = "key_up" => ~stack[i].items[k].arg.repeat

\* C29: a key-down event carries repeat = true iff the last-pressed cell holds
\* the pressed raw key when the press arrives, and the press then stores its key
\* in the cell; a release clears the cell iff the cell holds the released key;
\* a key-up event carries repeat = false; nothing else writes the cell.
C29_KeyRepeat == []KeyUpNeverRepeats /\ [][KeyCellStep]_vars

\* C29 witness: key 2 is pressed a second time without a release in between
\* and the handler is in key_down with repeat = true.
C29_Witness ==
    /\ Len(stack) = 1 /\ Top.pc = "client" /\ handlerBorrowed
    /\ Top.items[1].cb = "key_down" /\ Top.items[1].arg.key = 2
    /\ Top.items[1].arg.repeat /\ current_keycode = 2

\* ------------------------------------------------- repeated clicks (C30)
\* Frame fr is the with_handler call of a press that GTK counts as the second
\* or a later one of a multiple click; of the release that ends such a press.
RepeatedPress(fr) == fr.ev.kind = "press" /\ fr.ev.n >= 2

RepeatedRelease(fr) ==
    fr.ev.kind = "release" /\ fr.ev.n >= 2 /\ GetMouseButton(fr.ev.b) # "None"

\* No handler call is made or pending for a repeated press; the one a repeated
\* release makes is mouse_up with count 0.
RepeatedClickCallbacks ==
    \A i \in 1 .. Len(stack) :
        /\ RepeatedPress(stack[i]) => stack[i].items = <<>> /\ stack[i].pc # "client"
        /\ RepeatedRelease(stack[i]) /\ stack[i].pc \in {"enter", "client"} =>
              /\ Len(stack[i].items) = 1
              /\ stack[i].items[1].cb = "mouse_up"
              /\ stack[i].items[1].arg.count = 0
              /\ stack[i].items[1].arg.button = GetMouseButton(stack[i].ev.b)

\* The closure of a repeated release that has the handler goes on to mouse_up.
RepeatedReleaseStep ==
    IF stack = <<>> THEN TRUE
    ELSE IF RepeatedRelease(Top) /\ Top.pc = "enter" /\ CellsFree /\ stack' # stack
    THEN Len(stack') = Len(stack) /\ stack'[Len(stack)].pc = "client"
    ELSE TRUE

\* C30: a button press with press count 2 or more invokes no mouse_down; the
\* release that follows it still invokes mouse_up, with count 0.  (A double
\* click is press 1, release, press 2, release: one mouse_down, two mouse_up.)
C30_RepeatedPressNotForwarded ==
    []RepeatedClickCallbacks /\ [][RepeatedReleaseStep]_vars

\* C30 witness: the release ending the second press of a double click of
\* button 1 is in the handler as mouse_up(Left, count 0).
C30_Witness ==
    /\ Len(stack) = 1 /\ Top.pc = "client" /\ handlerBorrowed
    /\ Top.ev.kind = "release" /\ Top.ev.n = 2 /\ Top.ev.b = 1
    /\ Top.items[1].cb = "mouse_up" /\ Top.items[1].arg.count = 0

\* ------------------------------------------------- size buckets (C31)
\* i32::MAX
I32Max == 2147483647

\* next_size: `x + mask` leaves the range of i32.
NextSizeOverflows(x) ==
    LET accuracy == Pow2(Max(BitLen(x), 7) - 2)
    IN accuracy - 1 > I32Max - x

\* Dimensions resize_surface can be called with: the small ones, those around
\* every power of two, and those around the first one that overflows.
Dimensions ==
    (1 .. 40) \cup UNION {{Pow2(k) - 1, Pow2(k), Pow2(k) + 1} : k \in 6 .. 29}
        \cup {Pow2(30) - 1, Pow2(30), 3 * Pow2(29), 3 * Pow2(29) + 1, I32Max}

InitBucket ==
    /\ NoWindow
    /\ hist \in {[x |-> x, r |-> 0, overflow |-> FALSE, done |-> FALSE] : x \in Dimensions}

\* next_size(x)
NextSizeCall ==
    /\ ~hist.done
    /\ hist' = IF NextSizeOverflows(hist.x)
               THEN [hist EXCEPT !.overflow = TRUE, !.done = TRUE]
               ELSE [hist EXCEPT !.r = NextSize(hist.x), !.done = TRUE]
    /\ UNCHANGED notHist

NextBucket == NextSizeCall

SpecBucket == InitBucket /\ [][NextBucket]_vars

\* ceil(log2(x)) for x >= 1
CeilLog2(x) == IF x = Pow2(BitLen(x) - 1) THEN BitLen(x) - 1 ELSE BitLen(x)

\* max(2^5, 2^(ceil(log2(x)) - 2))
BucketStep(x) == IF CeilLog2(x) <= 7 THEN 32 ELSE Pow2(CeilLog2(x) - 2)

\* C31: for 1 <= x < 2^30, next_size(x) is the smallest multiple of
\* a = max(2^5, 2^(ceil(log2(x)) - 2)) that is >= x, so x <= r < x + a, and the
\* computation stays within i32.
C31_NextSizeBucket ==
    hist.done /\ hist.x >= 1 /\ hist.x < Pow2(30) =>
        /\ ~hist.overflow
        /\ hist.r % BucketStep(hist.x) = 0
        /\ hist.x <= hist.r
        /\ hist.r - BucketStep(hist.x) < hist.x

\* C31 witness: 2^29 + 1 is bucketed to 2^29 + 2^28.
C31_Witness ==
    hist.done /\ hist.x = Pow2(29) + 1 /\ hist.r = Pow2(29) + Pow2(28) /\ ~hist.overflow

\* ------------------------------------------- surface reallocation (C32)
\* The surface cell and the cached size, with the surfaces told apart: surf is 0
\* for None and n for the n-th surface allocated; made counts the allocations.
MaxCalls == 3

CallSizes == {1, 32, 33, 400, 512, 513}

\* A variant that allocates a new surface in every call.
ResizeSurfaceAlways(st, width, height) ==
    [surf |-> st.made + 1, size |-> ResizedSize(<<width, height>>), made |-> st.made + 1]

\* resize_surface(width, height) on the cells st, the surface cell not borrowed.
ResizeSurfaceOn(st, width, height) ==
    LET bucketed == ResizedSize(<<width, height>>)
    IN IF st.surf = 0 \/ st.size # bucketed
       THEN [surf |-> st.made + 1, size |-> bucketed, made |-> st.made + 1]
       ELSE st

InitRealloc ==
    /\ NoWindow
    /\ hist = [st |-> [surf |-> 0, size |-> <<0, 0>>, made |-> 0],
               calls |-> 0, width |-> 0, height |-> 0]

\* One call of resize_surface, with the size the draw function passes.
ResizeSurfaceCall(width, height) ==
    /\ hist.calls < MaxCalls
    /\ hist' = [st |-> ResizeSurfaceOn(hist.st, width, height),
                calls |-> hist.calls + 1, width |-> width, height |-> height]
    /\ UNCHANGED notHist

NextRealloc == \E width \in CallSizes, height \in CallSizes : ResizeSurfaceCall(width, height)

SpecRealloc == InitRealloc /\ [][NextRealloc]_vars

\* The bucketed size of the call that a step makes.
CallBucketed == <<NextSize(hist'.width), NextSize(hist'.height)>>

\* C32: resize_surface replaces the surface and updates surface_size only when
\* there is no surface or the bucketed size differs from the cached one, and
\* then the cache holds the bucketed size; every other call leaves both alone.
C32_ReallocOnlyOnBucketChange ==
    [][IF hist.st.surf = 0 \/ hist.st.size # CallBucketed
       THEN /\ hist'.st.surf \notin {0, hist.st.surf}
            /\ hist'.st.size = CallBucketed
       ELSE hist'.st = hist.st]_vars

\* C32 witness: the second call, with a size in the bucket of the first, kept
\* the first surface.
C32_Witness ==
    /\ hist.calls = 2 /\ hist.st.surf = 1 /\ hist.st.made = 1
    /\ hist.width = 400 /\ hist.st.size[1] = 512

\* ------------------------------------------------ surface present (C33)
\* The top frame is a draw function at its size check.
AtSizeCheck == IF stack = <<>> THEN FALSE ELSE Top.f = "draw" /\ Top.pc = "size"

\* A draw function that has passed its size check is on the stack.
PastSizeCheck ==
    \E i \in 1 .. Len(stack) : stack[i].f = "draw" /\ stack[i].pc \notin {"start", "size"}

\* C33: the surface cell holds no surface only until the first paint cycle
\* passes its size check, which allocates it; from then on every state has a
\* surface, whatever callback observes it.
C33_SurfaceStaysOnceAllocated ==
    /\ [](PastSizeCheck => surface)
    /\ [][IF AtSizeCheck /\ stack' # stack THEN surface'
          ELSE surface' = surface]_vars

\* C33 witness: while the paint callback of one cycle runs, a second cycle has
\* come to its paint step and finds the surface the first one allocated.
C33_Witness ==
    /\ Len(stack) = 2 /\ PaintRunning(1)
    /\ Top.f = "draw" /\ Top.pc = "paint" /\ surface /\ surfBorrows = 1

\* ------------------------------------------- menu identifiers (C34)
\* The identifiers of one level of the native model (the labels its items are
\* appended with) and of the display widget (the ids its children are added
\* with) are pairwise distinct, and so are those of every nested level.
RECURSIVE ModelIdsDistinct(_)
ModelIdsDistinct(model) ==
    /\ \A a, b \in 1 .. Len(model) : a # b => model[a].label # model[b].label
    /\ \A a \in 1 .. Len(model) : ModelIdsDistinct(model[a].sub)

RECURSIVE ChildIdsDistinct(_)
ChildIdsDistinct(children) ==
    /\ \A a, b \in 1 .. Len(children) : a # b => children[a].id # children[b].id
    /\ \A a \in 1 .. Len(children) : ChildIdsDistinct(children[a].children)

\* C34: in the native model and in the display widget built from a menu, the
\* identifiers of the items of one level are pairwise distinct, for every menu.
C34_IdsDistinctPerLevel ==
    hist.done => ModelIdsDistinct(hist.model) /\ ChildIdsDistinct(hist.widgets)

\* C34 holds for the menus without two entries of one label on a level and
\* without an entry labelled sep<n>: the separators of a level get sep1, sep2, ..
RECURSIVE LabelsApart(_)
LabelsApart(items) ==
    /\ \A a, b \in 1 .. Len(items) :
          a # b /\ items[a].t # "Separator" /\ items[b].t # "Separator" =>
              items[a].name # items[b].name
    /\ \A a \in 1 .. Len(items) :
          /\ items[a].t # "Separator" => items[a].name # "sep1"
          /\ LabelsApart(items[a].menu)

C34_SeparatorsDistinct ==
    hist.done /\ LabelsApart(hist.menu) =>
        ModelIdsDistinct(hist.model) /\ ChildIdsDistinct(hist.widgets)

\* ------------------------------------------------ accelerators (C35)
\* HotKey: the modifiers and the key, a character key with its text or a named
\* key.
ModifierSets == SUBSET {"alt", "ctrl", "shift", "meta"}

CharacterTexts == {"a", "S", "7", ""}

NamedKeys == ({RawKeyToKey(r) : r \in RawKeys} \ {"None"}) \cup {"Unidentified"}

HotKeys ==
    {[mods |-> md, kind |-> "Character", key |-> t] : md \in ModifierSets, t \in CharacterTexts}
        \cup {[mods |-> md, kind |-> "Named", key |-> k] : md \in ModifierSets, k \in NamedKeys}

\* The raw keys that stand for a control character.
ControlKeys == {"Escape", "BackSpace", "Tab", "Return", "Delete"}

\* RawKey::to_unicode of a raw key key_to_raw_key returns: none of them is a
\* printing key; the toolkit may or may not give a control character for those
\* that stand for one.
ToUnicode(raw) == IF raw \in ControlKeys THEN {"None", "Control"} ELSE {"None"}

\* register_accelerator: the outcomes of the call ("Panic": an unwrap of None).
\* The trigger string is the modifier string followed by the character;
\* parse_string may reject a control character.
RegisterAccelerator(menu_key) ==
    IF menu_key.kind = "Character"
    THEN IF menu_key.key = "" THEN {"Panic"} ELSE {"Activating"}
    ELSE IF KeyToRawKey(menu_key.key) = "None" THEN {"Inert"}
    ELSE UNION {IF u = "None" THEN {"Panic"} ELSE {"Panic", "Activating"} :
                   u \in ToUnicode(KeyToRawKey(menu_key.key))}

InitAccel ==
    /\ NoWindow
    /\ hist \in {[hotkey |-> hk, result |-> "?", done |-> FALSE] : hk \in HotKeys}

\* append_items_to_menu: the shortcut of an entry that has a hotkey.
AddShortcut ==
    /\ ~hist.done
    /\ \E res \in RegisterAccelerator(hist.hotkey) :
          hist' = [hist EXCEPT !.result = res, !.done = TRUE]
    /\ UNCHANGED notHist

NextAccel == AddShortcut

SpecAccel == InitAccel /\ [][NextAccel]_vars

\* The key has a native accelerator string.
HasNativeKey(hk) == hk.kind = "Character" \/ KeyToRawKey(hk.key) # "None"

\* C35: register_accelerator returns a shortcut for every hotkey, an activating
\* one when the key maps to a native accelerator string and an inert one when
\* it does not.
C35_RegisterNeverFails ==
    hist.done =>
        IF HasNativeKey(hist.hotkey) THEN hist.result = "Activating"
        ELSE hist.result = "Inert"

\* What holds: a named key without a raw key gets an inert shortcut, and a
\* character key with a non-empty text an activating one.
C35_UnmappableIsInert ==
    hist.done =>
        /\ ~HasNativeKey(hist.hotkey) => hist.result = "Inert"
        /\ hist.hotkey.kind = "Character" /\ hist.hotkey.key # "" =>
              hist.result = "Activating"

\* ------------------------------------------ invalidations kept (C36)
\* A draw function holds a non-empty region it has swapped out and is about to
\* call paint.
HoldsSwappedRegion ==
    IF stack = <<>> THEN FALSE
    ELSE Top.f = "draw" /\ Top.pc = "paint" /\ Top.reg # {}

\* C36: a paint cycle that swaps a non-empty region out passes that region to
\* the paint callback; it never ends with the region discarded.
C36_NoInvalidationLost ==
    [][HoldsSwappedRegion /\ stack' # stack =>
          /\ Len(stack') = Len(stack)
          /\ stack'[Len(stack)].pc = "client"
          /\ stack'[Len(stack)].reg = Top.reg]_vars

\* What holds: a cycle that is not nested in a handler callback delivers the
\* region it swapped out.
C36_TopLevelCycleDelivers ==
    [][HoldsSwappedRegion /\ Len(stack) = 1 /\ stack' # stack =>
          /\ Len(stack') = Len(stack)
          /\ stack'[Len(stack)].pc = "client"
          /\ stack'[Len(stack)].reg = Top.reg]_vars

\* ------------------------------------------- the region's borrow (C37)
\* WindowHandle::invalidate_rect step by step: the cell of the invalid region
\* is borrowed (try_borrow_mut), the snapped rectangle is added and queue_draw is
\* called with the borrow held; the borrow ends when the function returns.  When
\* the cell is borrowed already the call warns and changes nothing.
InvalidateRectEnter(r) ==
    /\ CanCall /\ Alive /\ Cardinality(invalid) < MaxRects
    /\ IF invalidBorrowed
       THEN UNCHANGED <<invalidBorrowed, invalid, hist, stack>>
       ELSE /\ invalidBorrowed' = TRUE
            /\ invalid' = AddRect(invalid, SnapRect(r, scale))
            /\ hist' = Requested(hist, r)
            /\ stack' = Append(stack, [Frame0 EXCEPT !.f = "invalidate", !.pc = "queue_draw"])
    /\ UNCHANGED <<hasHandler, buildResult, appRef, shown, panicked, scale, reported,
                   area, winPx, surface, surface_size, surfBorrows, handlerBorrowed,
                   idle_queue, idle_lock, blocked, idleSources, current_keycode,
                   deferred_queue, timers, nextTimer, nextFile, nextIdle, lastRet>>

\* A variant whose borrow of the region outlives the call.
InvalidateRectReturnKeepsBorrow ==
    /\ Running /\ stack # <<>> /\ Top.f = "invalidate"
    /\ stack' = Pop
    /\ UNCHANGED <<invalidBorrowed, invalid, hist>>
    /\ UNCHANGED <<hasHandler, buildResult, appRef, shown, panicked, scale, reported,
                   area, winPx, surface, surface_size, surfBorrows, handlerBorrowed,
                   idle_queue, idle_lock, blocked, idleSources, current_keycode,
                   deferred_queue, timers, nextTimer, nextFile, nextIdle, lastRet>>

\* invalidate_rect returns: the borrow of the region is dropped.
InvalidateRectReturn ==
    /\ Running /\ stack # <<>> /\ Top.f = "invalidate"
    /\ invalidBorrowed' = FALSE
    /\ stack' = Pop
    /\ UNCHANGED <<invalid, hist>>
    /\ UNCHANGED <<hasHandler, buildResult, appRef, shown, panicked, scale, reported,
                   area, winPx, surface, surface_size, surfBorrows, handlerBorrowed,
                   idle_queue, idle_lock, blocked, idleSources, current_keycode,
                   deferred_queue, timers, nextTimer, nextFile, nextIdle, lastRet>>

NextRegion ==
    \/ CoreStep
    \/ DrawStep
    \/ Input("mouse_move")
    \/ \E r \in RectInputs : InvalidateRectEnter(r)
    \/ InvalidateRectReturn

SpecRegion == Init /\ [][NextRegion]_vars

\* invalidate_rect is running.
InInvalidateRect == IF stack = <<>> THEN FALSE ELSE Top.f = "invalidate"

\* C37: the cell of the invalid region is borrowed only while invalidate_rect
\* itself runs: wherever invalidate_rect can be called, and wherever with_handler
\* or the draw function look at the cell, it is free, so no invalidation is
\* dropped because the region is borrowed.
C37_RegionCellFree ==
    /\ invalidBorrowed => InInvalidateRect
    /\ CanCall => ~invalidBorrowed

\* C37 witness: the paint callback calls invalidate_rect, which has found the
\* cell free and holds it.
C37_Witness ==
    /\ Len(stack) = 2 /\ PaintRunning(1) /\ InInvalidateRect
    /\ invalidBorrowed /\ invalid # {}

\* ------------------------------------------- idle drains pending (C38)
\* A call of run_idle is on the stack that has not yet taken the queue or been
\* refused the handler's answer: it will take the queue or install a retry.
RunIdleUndecided ==
    \E j \in 1 .. Len(stack) :
        /\ stack[j].ret = "idle"
        /\ IF stack[j].pc = "enter" THEN TRUE
           ELSE stack[j].pc \in {"drain", "dlg"} /\ ~stack[j].res

\* C38: whenever the idle queue is non-empty and no call of run_idle is about
\* to take it or to install its retry, an idle source or a retry timeout is
\* installed: no pushed item is left with nothing scheduled to drain it,
\* whichever thread pushed it and wherever run_idle was at that moment.
C38_NonEmptyQueueHasDrain ==
    idle_queue # <<>> /\ ~RunIdleUndecided => idleSources > 0

\* C38 witness: an item pushed while a drain was delivering another one waits in
\* the queue, the loop is idle, and the source that push installed is pending.
C38_Witness ==
    /\ stack = <<>> /\ idle_queue # <<>> /\ idleSources = 1
    /\ hist.drainOverlap /\ hist.idleCb[1] = 1

\* ------------------------------------- deferred operations kept (C39)
\* One step seen from the deferred operations: an operation leaves the queue
\* only when a starting drain takes the whole queue as its batch, and leaves a
\* batch only as its first element, when the drain has executed it (popped up
\* the menu, or opened the dialog and is handing the result to the handler).
\* The batches of the calls further down the stack are untouched, whatever the
\* calls above them drain, and a drain returns only with its batch used up.
DeferredKeptStep ==
    /\ \A i \in 1 .. Len(stack) - 1 :
          Len(stack') >= i => stack'[i].batch = stack[i].batch
    /\ IF stack = <<>> \/ stack' = stack
       THEN deferred_queue' # deferred_queue =>
               SubSeq(deferred_queue', 1, Len(deferred_queue)) = deferred_queue
       ELSE IF Len(stack') < Len(stack)
       THEN Top.batch = <<>> /\ deferred_queue' = deferred_queue
       ELSE IF deferred_queue' # deferred_queue
       THEN /\ deferred_queue' = <<>> /\ Top.batch = <<>>
            /\ stack'[Len(stack)].batch = deferred_queue
       ELSE IF stack'[Len(stack)].batch # Top.batch
       THEN /\ Top.batch # <<>> /\ stack'[Len(stack)].batch = Tail(Top.batch)
            /\ IF Head(Top.batch).op = "ContextMenu" THEN Top.pc = "drain"
               ELSE Top.pc = "dlg" /\ hist.dlg[Head(Top.batch).tok] = 1
       ELSE TRUE

\* C39: a deferred operation is executed at most once and never discarded: it
\* stays in the queue until a drain takes it, and that drain executes it, also
\* when an earlier operation of the drain calls with_handler and a nested drain
\* runs.
C39_DeferredKept ==
    /\ [](\A t \in 1 .. MaxFiles : hist.dlg[t] <= 1)
    /\ [][DeferredKeptStep]_vars

\* C39 witness: the handler has received the file of a drain's first operation,
\* the nested with_handler call that delivered it is draining an operation
\* deferred meanwhile, and the outer drain still has the rest of its batch.
C39_Witness ==
    /\ Len(stack) = 2
    /\ stack[1].pc = "drain" /\ stack[1].batch # <<>>
    /\ Top.f = "wh" /\ Top.pc = "drain" /\ Top.res /\ Top.batch # <<>>
    /\ hist.fileCb[1] = 1

\* ------------------------------------------------- window state (C40)
\* window::WindowState
WindowStates == {"MAXIMIZED", "MINIMIZED", "RESTORED"}

\* The native window: gtk's maximize, unmaximize, minimize and unminimize set
\* and clear its two flags; is_maximized reads the first.
NativeWindows == [maximized : BOOLEAN, minimized : BOOLEAN]

\* WindowHandle::get_window_state on native window win; alive: the upgrade of
\* the handle's Weak succeeds.
GetWindowState(win, alive) ==
    IF alive
    THEN IF win.maximized THEN "MAXIMIZED" ELSE "MINIMIZED"
    ELSE "RESTORED"

\* The arm of set_window_state's match for (size_state, cur_size_state).
MatchArm(win, size_state, cur_size_state) ==
    IF size_state = cur_size_state THEN win
    ELSE IF size_state = "MAXIMIZED" THEN [win EXCEPT !.maximized = TRUE]
    ELSE IF size_state = "MINIMIZED" THEN [win EXCEPT !.minimized = TRUE]
    ELSE IF cur_size_state = "MAXIMIZED" THEN [win EXCEPT !.maximized = FALSE]
    ELSE IF cur_size_state = "MINIMIZED" THEN [win EXCEPT !.minimized = FALSE]
    ELSE win

\* WindowHandle::set_window_state: the match, then unmaximize in every case.
SetWindowStateOn(win, alive, size_state) ==
    IF alive
    THEN [MatchArm(win, size_state, GetWindowState(win, alive)) EXCEPT !.maximized = FALSE]
    ELSE win

\* A window as the window manager and the user left it; no call made yet.
InitWinState ==
    /\ NoWindow
    /\ hist \in {[win |-> w, alive |-> TRUE, phase |-> "idle", set |-> "RESTORED",
                  before |-> w, got |-> "RESTORED"] : w \in NativeWindows}

\* The user maximizes, restores or minimizes the window through the window
\* manager.
UserChange ==
    /\ \E w \in NativeWindows \ {hist.win} :
          hist' = [hist EXCEPT !.win = w, !.phase = "idle"]
    /\ UNCHANGED notHist

\* The last strong reference to the window state goes away.
WindowDropped ==
    /\ hist.alive
    /\ hist' = [hist EXCEPT !.alive = FALSE, !.phase = "idle"]
    /\ UNCHANGED notHist

SetWindowState(size_state) ==
    /\ hist' = [hist EXCEPT !.win = SetWindowStateOn(hist.win, hist.alive, size_state),
                            !.phase = "set", !.set = size_state, !.before = hist.win]
    /\ UNCHANGED notHist

\* get_window_state right after set_window_state
GetAfterSet ==
    /\ hist.phase = "set"
    /\ hist' = [hist EXCEPT !.phase = "got", !.got = GetWindowState(hist.win, hist.alive)]
    /\ UNCHANGED notHist

NextWinState ==
    \/ UserChange
    \/ WindowDropped
    \/ \E size_state \in WindowStates : SetWindowState(size_state)
    \/ GetAfterSet

SpecWinState == InitWinState /\ [][NextWinState]_vars

\* C40: on a live window, get_window_state after set_window_state(s) returns s,
\* and set_window_state(s) on a window that reports state s changes nothing.
C40_SetThenGet ==
    /\ hist.alive /\ hist.phase = "got" => hist.got = hist.set
    /\ hist.alive /\ hist.phase \in {"set", "got"}
          /\ GetWindowState(hist.before, TRUE) = hist.set => hist.win = hist.before

\* What holds: after set_window_state of any state a live window is not
\* maximized, and get_window_state reports MINIMIZED.
C40_AlwaysReportsMinimized ==
    hist.alive /\ hist.phase = "got" => ~hist.win.maximized /\ hist.got = "MINIMIZED"

====
